---- MODULE Spec2Model ----
(***************************************************************************)
(* Model of the blocking / plate-ownership core of Tsuk1mi/service.        *)
(*                                                                         *)
(* The database is the only shared state: every SQL statement is one       *)
(* atomic step, and a request (one tokio task) is a process that moves     *)
(* from statement to statement.  Statements issued on the pool are         *)
(* auto-committed one by one: the repositories open no transaction.        *)
(*                                                                         *)
(* Strings that the code inspects character by character (plates) are      *)
(* sequences of one-character strings.  Option<T> is a sequence of length  *)
(* 0 (None) or 1 (Some).                                                   *)
(***************************************************************************)
EXTENDS Integers, Sequences, FiniteSets, TLC

VARIABLES users, plates, blocks, notifications, dispatched, procs,
          blockSeq, plateSeq, now, started, blockKey, codes

vars == <<users, plates, blocks, notifications, dispatched, procs,
          blockSeq, plateSeq, now, started, blockKey, codes>>

\* ------------------------------------------------------------------ bounds
MaxOps == 2

Users == {"u1", "u2", "u3"}
Procs == {"p1", "p2"}

NoneV == << >>
Some(x) == << x >>
IsSome(o) == Len(o) = 1
Unwrap(o) == o[1]

\* ------------------------------------------------------- characters, plates
AsciiUpperLetters == {"A", "B", "S"}
AsciiLowerLetters == {"a", "b", "s"}
CyrillicUpper == {"CY_A"}
CyrillicLower == {"cy_a"}
AsciiDigits == {"0", "1", "2", "3", "4", "5", "6", "7", "8", "9"}

to_uppercase_char(c) ==
    CASE c = "a" -> "A"
      [] c = "b" -> "B"
      [] c = "s" -> "S"
      [] c = "cy_a" -> "CY_A"
      [] OTHER -> c

to_ascii_lowercase_char(c) ==
    CASE c = "A" -> "a"
      [] c = "B" -> "b"
      [] c = "S" -> "s"
      [] OTHER -> c

\* str::to_uppercase of a text with the one character whose upper case is two
\* characters ("sharp_s", U+00DF, becomes "SS")
RECURSIVE to_uppercase_special(_)
to_uppercase_special(s) ==
    IF s = << >> THEN << >>
    ELSE (IF Head(s) = "sharp_s" THEN <<"S", "S">> ELSE << to_uppercase_char(Head(s)) >>)
         \o to_uppercase_special(Tail(s))

to_uppercase(s) ==
    IF \A i \in 1..Len(s) : s[i] # "sharp_s"
    THEN [i \in 1..Len(s) |-> to_uppercase_char(s[i])]
    ELSE to_uppercase_special(s)

IsPlateSeparator(c) == c \in {" ", "-"}
NotPlateSeparator(c) == ~IsPlateSeparator(c)

\* utils/plate.rs: plate.replace([' ', '-'], "").to_uppercase()
normalize_plate(plate) == to_uppercase(SelectSeq(plate, NotPlateSeparator))

is_ascii_digit(c) == c \in AsciiDigits
is_letter(c) == c \in CyrillicUpper \/ c \in (AsciiUpperLetters \cup AsciiLowerLetters)

validate_plate_length_only(plate) ==
    Len(normalize_plate(plate)) >= 8 /\ Len(normalize_plate(plate)) <= 9

validate_plate_util(plate) ==
    LET normalized == normalize_plate(plate)
        n == Len(normalized)
    IN  /\ n >= 8 /\ n <= 9
        /\ is_letter(normalized[1])
        /\ \A i \in 2..4 : is_ascii_digit(normalized[i])
        /\ \A i \in 5..6 : is_letter(normalized[i])
        /\ \A i \in 7..n : is_ascii_digit(normalized[i])

\* ValidationService::validate_plate: Ok(normalized) or Err(Validation)
validate_plate(plate) ==
    LET normalized == normalize_plate(plate)
    IN  IF validate_plate_util(normalized) THEN Some(normalized) ELSE NoneV

eq_ignore_ascii_case(a, b) ==
    /\ Len(a) = Len(b)
    /\ \A i \in 1..Len(a) : to_ascii_lowercase_char(a[i]) = to_ascii_lowercase_char(b[i])

RECURSIVE TrimLeft(_)
TrimLeft(s) == IF s # << >> /\ Head(s) = " " THEN TrimLeft(Tail(s)) ELSE s
RECURSIVE TrimRight(_)
TrimRight(s) == IF s # << >> /\ s[Len(s)] = " " THEN TrimRight(SubSeq(s, 1, Len(s) - 1)) ELSE s

\* SQL: UPPER(TRIM(x))
SqlUpperTrim(s) == to_uppercase(TrimRight(TrimLeft(s)))

\* ------------------------------------------------------------------ phones
IsPhoneChar(c) == is_ascii_digit(c) \/ c = "+"

StartsWith(s, prefix) ==
    Len(s) >= Len(prefix) /\ SubSeq(s, 1, Len(prefix)) = prefix

\* utils/phone.rs: normalize_phone keeps digits and '+', then rewrites the prefix
normalize_phone(phone) ==
    LET cleaned == SelectSeq(phone, IsPhoneChar)
    IN  IF StartsWith(cleaned, <<"+", "7">>) THEN cleaned
        ELSE IF StartsWith(cleaned, <<"8">>) /\ Len(cleaned) > 1
        THEN <<"+", "7">> \o Tail(cleaned)
        ELSE IF StartsWith(cleaned, <<"7">>) /\ Len(cleaned) > 1
        THEN <<"+">> \o cleaned
        ELSE IF cleaned # << >> /\ is_ascii_digit(cleaned[1])
        THEN <<"+", "7">> \o cleaned
        ELSE cleaned

\* utils/phone.rs: validate_phone
validate_phone_util(phone) ==
    LET normalized == normalize_phone(phone)
    IN  /\ Len(normalized) >= 10
        /\ (StartsWith(normalized, <<"+">>) \/ StartsWith(normalized, <<"8">>)
              \/ StartsWith(normalized, <<"7">>))

\* ValidationService::validate_phone: Ok(normalized) or Err(Validation)
validate_phone(phone) ==
    LET normalized == normalize_phone(phone)
    IN  IF validate_phone_util(normalized) THEN Some(normalized) ELSE NoneV

\* AuthService::phone_hash and UserService::phone_hash: SHA-256 of the text, taken
\* to be free of collisions
phone_hash(phone) == <<"sha256", phone>>

\* Encryption::encrypt
encrypt(phone) == [phone |-> phone, intact |-> TRUE]

Subscriber(last) == <<"+", "7", "9", "0", "1", "0", "0", "0", "0", "0", "0", last>>
Phone1 == Subscriber("1")
Phone2 == Subscriber("2")
Phone9 == Subscriber("9")
\* the number of Phone9 as a client may type it
RawPhone9 == <<"8", " ", "9", "0", "1", "-", "0", "0", "0", "0", "0", "0", "9">>
RawPhoneShort == <<"8", "9", "0", "1">>

PlateA == <<"A", "1", "1", "1", "A", "A", "7", "7">>
PlateB == <<"B", "2", "2", "2", "B", "B", "7", "7">>
PlateC == <<"S", "3", "3", "3", "S", "S", "7", "7">>
RawPlateALower == <<"a", "1", "1", "1", "-", "a", "a", " ", "7", "7">>
RawPlateShort == <<"B", "2", "2">>

RawPlates == {PlateB, RawPlateALower, RawPlateShort}

\* a text of users.plate that the column accepts and the plate grammar does not
LegacyPlateBad == <<"A", "A", "A", "A", "A", "A", "7", "7">>

\* Request shapes of CreateBlockRequest besides blocked_plate:
\* departure_time is None, a well-formed "HH:MM" or a malformed string.
TimeWellFormed == <<"1", "7", ":", "1", "2">>
TimeMalformed == <<"1", "7", "h">>
ReqOptions ==
    { [notify_owner |-> FALSE, departure_time |-> NoneV, notification_method |-> NoneV],
      [notify_owner |-> TRUE, departure_time |-> Some(TimeWellFormed),
       notification_method |-> Some("telegram")],
      [notify_owner |-> FALSE, departure_time |-> Some(TimeMalformed),
       notification_method |-> Some("android_push")] }

\* chrono::NaiveTime::parse_from_str(s, "%H:%M"): two digits, ':', two digits
\* (the model's digits never exceed 23:59).
parse_time(s) ==
    IF /\ Len(s) = 5 /\ s[3] = ":"
       /\ \A i \in {1, 2, 4, 5} : is_ascii_digit(s[i])
    THEN Some(s) ELSE NoneV

\* ------------------------------------------------------------ store schema
\* db/init.rs: UNIQUE(blocker_id, blocked_plate) on blocks
unique_user_block(rows, row) ==
    ~\E b \in rows : b.blocker_id = row.blocker_id /\ b.blocked_plate = row.blocked_plate

\* db/init.rs: UNIQUE(user_id, plate) on user_plates
user_plate_conflict(rows, user_id, plate) ==
    {r \in rows : r.user_id = user_id /\ r.plate = plate}

IndexMissing(rows) == TRUE

\* db/init.rs: UNIQUE INDEX idx_user_plates_primary ON user_plates(user_id) WHERE is_primary
idx_user_plates_primary(rows) ==
    \A r1, r2 \in rows :
        (r1.user_id = r2.user_id /\ r1.is_primary /\ r2.is_primary) => r1.id = r2.id

\* db/init.rs: CONSTRAINT notification_type_check
\* db/init.rs:42, 126-127 and 260: CONSTRAINT plate_format on users.plate (when not
\* NULL) and on user_plates.plate
plate_format(plate) == Len(TrimRight(TrimLeft(plate))) >= 8 /\ Len(plate) <= 15

notification_type_check(type) ==
    type \in {"block_created", "block_deleted", "warning_call", "system"}

\* ------------------------------------------------------- store operations
\* PostgresUserPlateRepository::find_primary_by_user_id (LIMIT 1): the rows it may return
find_primary_by_user_id(user_id) ==
    {r \in plates : r.user_id = user_id /\ r.is_primary}

\* PostgresUserPlateRepository::find_by_user_id, ORDER BY is_primary DESC, created_at DESC:
\* the rows that may come first
find_by_user_id_first(user_id) ==
    LET mine == {r \in plates : r.user_id = user_id}
        Before(r1, r2) == \/ (r1.is_primary /\ ~r2.is_primary)
                          \/ (r1.is_primary = r2.is_primary /\ r1.created_at > r2.created_at)
    IN  {r \in mine : ~\E r2 \in mine : Before(r2, r)}

\* PostgresUserPlateRepository::find_by_plate
find_by_plate(plate) ==
    {r \in plates : SqlUpperTrim(r.plate) = SqlUpperTrim(plate)}

\* The sequences that list a finite set in some order (a SELECT without ORDER BY)
Orderings(S) ==
    {s \in [1..Cardinality(S) -> S] : \A i, j \in 1..Cardinality(S) : i # j => s[i] # s[j]}

\* PostgresBlockRepository::exists.  The repository compares blocker_plate with its
\* first parameter; BlockService::create_block passes blocker_id for it.  The two do
\* not type-check together, so the running build is one of the two revisions the
\* sources mix: blockKey = "plate" keeps the repository as written and is handed the
\* blocker's plate, blockKey = "id" keeps the service as written and matches blocker_id.
exists(key, blocker_id, blocker_plate, blocked_plate) ==
    \E b \in blocks :
        /\ IF key = "plate"
           THEN SqlUpperTrim(b.blocker_plate) = SqlUpperTrim(blocker_plate)
           ELSE b.blocker_id = blocker_id
        /\ SqlUpperTrim(b.blocked_plate) = SqlUpperTrim(blocked_plate)

\* PostgresBlockRepository::find_by_id
find_block_by_id(block_id) == {b \in blocks : b.id = block_id}

\* NOW() never goes back; two statements may see the same instant
Tick(t) == {t, t + 1}

Idle == [op |-> "idle"]

\* A database statement may fail (connection loss, timeout): sqlx returns Err.
Outcomes == BOOLEAN

Step(p, rec) == procs' = [procs EXCEPT ![p] = rec]

\* Requests are interchangeable tasks: a new one takes the first free slot.
FirstFree(p) == procs[p] = Idle /\ (p = "p2" => procs["p1"] # Idle)

\* ------------------------------------------------ BlockService::create_block
\* The call has returned: what the caller gets, and what the call left behind.
CreateBlockDone(rec, result, why) ==
    [op |-> "create_block", pc |-> "done", blocker_id |-> rec.blocker_id,
     normalized_plate |-> rec.normalized_plate,
     blocker_primary_plate |-> rec.blocker_primary_plate,
     block |-> rec.block,
     result |-> result, why |-> why]

SelfBlockCheckMissing(rec, plate) ==
    [rec EXCEPT !.blocker_primary_plate = Some(plate), !.pc = "exists"]

SelfBlockCheckThenInsert(rec, plate) ==
    LET r == [rec EXCEPT !.blocker_primary_plate = Some(plate)]
    IN  IF eq_ignore_ascii_case(plate, Unwrap(rec.normalized_plate))
        THEN CreateBlockDone(r, "Validation", "self_block")
        ELSE [r EXCEPT !.pc = "insert"]

\* block_service.rs:76-86, then the pre-check comes next
SelfBlockCheck(rec, plate) ==
    LET r == [rec EXCEPT !.blocker_primary_plate = Some(plate)]
    IN  IF eq_ignore_ascii_case(plate, Unwrap(rec.normalized_plate))
        THEN CreateBlockDone(r, "Validation", "self_block")
        ELSE [r EXCEPT !.pc = "exists"]

\* block_service.rs:50-69: normalize, validate, find_primary_by_user_id
create_block_begin(p) ==
    /\ FirstFree(p)
    /\ started < MaxOps
    /\ started' = started + 1
    /\ \E blocker_id \in DOMAIN users, raw \in RawPlates, opts \in ReqOptions, ok \in Outcomes :
        LET request == [blocked_plate |-> normalize_plate(raw),
                        notify_owner |-> opts.notify_owner,
                        departure_time |-> opts.departure_time,
                        notification_method |-> opts.notification_method]
            rec == [op |-> "create_block", pc |-> "fallback", blocker_id |-> blocker_id,
                    request |-> request,
                    normalized_plate |-> validate_plate(request.blocked_plate),
                    blocker_primary_plate |-> NoneV, block |-> NoneV,
                    primary_id |-> NoneV, todo |-> << >>, notified |-> {},
                    owner_user |-> NoneV]
            primary == find_primary_by_user_id(blocker_id)
        IN  IF ~IsSome(rec.normalized_plate)
            THEN /\ ok
                 /\ Step(p, CreateBlockDone(rec, "Validation", "plate_format"))
            ELSE IF ok /\ primary # {}
                 THEN \E row \in primary : Step(p, SelfBlockCheck(rec, row.plate))
                 ELSE Step(p, rec)
    /\ UNCHANGED <<users, plates, blocks, notifications, dispatched, blockSeq, plateSeq,
                   now, blockKey, codes>>

\* block_service.rs:70-73: find_by_user_id, first row or "add a vehicle first"
create_block_fallback(p) ==
    /\ procs[p].op = "create_block" /\ procs[p].pc = "fallback"
    /\ \E ok \in Outcomes :
        /\ LET rec == procs[p]
               first == find_by_user_id_first(rec.blocker_id)
           IN  IF ~ok THEN Step(p, CreateBlockDone(rec, "Database", "find_by_user_id"))
               ELSE IF first = {} THEN Step(p, CreateBlockDone(rec, "Validation", "no_vehicle"))
               ELSE \E row \in first : Step(p, SelfBlockCheck(rec, row.plate))
    /\ UNCHANGED <<users, plates, blocks, notifications, dispatched, blockSeq, plateSeq,
                   now, started, blockKey, codes>>

\* block_service.rs:94-112: the duplicate pre-check
create_block_exists(p) ==
    /\ procs[p].op = "create_block" /\ procs[p].pc = "exists"
    /\ \E ok \in Outcomes :
        /\ LET rec == procs[p]
           IN  IF ~ok THEN Step(p, CreateBlockDone(rec, "Database", "exists"))
               ELSE IF exists(blockKey, rec.blocker_id, Unwrap(rec.blocker_primary_plate),
                              Unwrap(rec.normalized_plate))
               THEN Step(p, CreateBlockDone(rec, "Validation", "duplicate"))
               ELSE Step(p, [rec EXCEPT !.pc = "insert"])
    /\ UNCHANGED <<users, plates, blocks, notifications, dispatched, blockSeq, plateSeq,
                   now, started, blockKey, codes>>

\* block_service.rs:123-145: which statement follows the insert
AfterInsert(rec) ==
    LET t == rec.request.departure_time
    IN  IF IsSome(t) /\ Unwrap(t) # << >> /\ IsSome(parse_time(Unwrap(t)))
        THEN "dep_find" ELSE "blocker"

\* block_service.rs:114-121 and PostgresBlockRepository::create
create_block_insert(p) ==
    /\ procs[p].op = "create_block" /\ procs[p].pc = "insert"
    /\ \E ok \in Outcomes :
        /\ LET rec == procs[p]
               row == [id |-> blockSeq + 1, blocker_id |-> rec.blocker_id,
                       blocker_plate |-> Unwrap(rec.blocker_primary_plate),
                       blocked_plate |-> Unwrap(rec.normalized_plate),
                       created_at |-> now]
           IN  IF ~ok
               THEN /\ Step(p, CreateBlockDone(rec, "Database", "insert"))
                    /\ UNCHANGED <<blocks, blockSeq, now>>
               ELSE IF ~unique_user_block(blocks, row)
               THEN /\ Step(p, CreateBlockDone(rec, "Database", "unique_user_block"))
                    /\ UNCHANGED <<blocks, blockSeq, now>>
               ELSE /\ blocks' = blocks \cup {row}
                    /\ blockSeq' = blockSeq + 1
                    /\ now' \in Tick(now)
                    /\ Step(p, [rec EXCEPT !.block = Some(row), !.pc = AfterInsert(rec)])
    /\ UNCHANGED <<users, plates, notifications, dispatched, plateSeq, started, blockKey, codes>>

\* block_service.rs:128-131: find_primary_by_user_id for the departure time
create_block_dep_find(p) ==
    /\ procs[p].op = "create_block" /\ procs[p].pc = "dep_find"
    /\ \E ok \in Outcomes :
        /\ LET rec == procs[p]
               primary == find_primary_by_user_id(rec.blocker_id)
           IN  IF ok /\ primary # {}
               THEN \E row \in primary :
                        Step(p, [rec EXCEPT !.primary_id = Some(row.id), !.pc = "dep_update"])
               ELSE Step(p, [rec EXCEPT !.pc = "blocker"])
    /\ UNCHANGED <<users, plates, blocks, notifications, dispatched, blockSeq, plateSeq,
                   now, started, blockKey, codes>>

update_departure_time_any(rows, id, user_id, time) ==
    {IF r.id = id THEN [r EXCEPT !.departure_time = time] ELSE r : r \in rows}

\* PostgresUserPlateRepository::update_departure_time
update_departure_time(rows, id, user_id, time) ==
    {IF r.id = id /\ r.user_id = user_id THEN [r EXCEPT !.departure_time = time] ELSE r
        : r \in rows}

\* block_service.rs:132-134: let _ = update_departure_time(..)
create_block_dep_update(p) ==
    /\ procs[p].op = "create_block" /\ procs[p].pc = "dep_update"
    /\ \E ok \in Outcomes :
        /\ LET rec == procs[p]
               dt == parse_time(Unwrap(rec.request.departure_time))
           IN  /\ plates' = IF ok
                            THEN update_departure_time(plates, Unwrap(rec.primary_id),
                                                       rec.blocker_id, dt)
                            ELSE plates
               /\ Step(p, [rec EXCEPT !.pc = "blocker"])
    /\ UNCHANGED <<users, blocks, notifications, dispatched, blockSeq, plateSeq,
                   now, started, blockKey, codes>>

\* block_service.rs:151: if let Ok(Some(blocker_user)) = find_by_id(blocker_id)
create_block_blocker(p) ==
    /\ procs[p].op = "create_block" /\ procs[p].pc = "blocker"
    /\ \E ok \in Outcomes :
        /\ LET rec == procs[p]
           IN  IF ok /\ rec.blocker_id \in DOMAIN users
               THEN Step(p, [rec EXCEPT !.pc = "owners"])
               ELSE Step(p, CreateBlockDone(rec, "Ok", "ok"))
    /\ UNCHANGED <<users, plates, blocks, notifications, dispatched, blockSeq, plateSeq,
                   now, started, blockKey, codes>>

\* block_service.rs:157-165: skip the blocker and the users already notified
RECURSIVE NextOwners(_, _, _)
NextOwners(todo, notified, blocker_id) ==
    IF todo = << >> THEN todo
    ELSE IF Head(todo) = blocker_id \/ Head(todo) \in notified
         THEN NextOwners(Tail(todo), notified, blocker_id)
         ELSE todo

\* The loop header of the fan-out: the next owner to handle, or the end of the call
CreateBlockLoop(rec) ==
    LET rest == NextOwners(rec.todo, rec.notified, rec.blocker_id)
    IN  IF rest = << >>
        THEN CreateBlockDone(rec, "Ok", "ok")
        ELSE [rec EXCEPT !.todo = rest, !.notified = @ \cup {Head(rest)},
                         !.owner_user = NoneV, !.pc = "owner"]

\* block_service.rs:156: if let Ok(user_plates) = find_by_plate(normalized_plate)
create_block_owners(p) ==
    /\ procs[p].op = "create_block" /\ procs[p].pc = "owners"
    /\ \E ok \in Outcomes :
        /\ LET rec == procs[p]
           IN  IF ~ok
               THEN Step(p, CreateBlockDone(rec, "Ok", "ok"))
               ELSE \E rows \in Orderings(find_by_plate(Unwrap(rec.normalized_plate))) :
                        Step(p, CreateBlockLoop(
                            [rec EXCEPT !.todo = [i \in 1..Len(rows) |-> rows[i].user_id]]))
    /\ UNCHANGED <<users, plates, blocks, notifications, dispatched, blockSeq, plateSeq,
                   now, started, blockKey, codes>>

\* block_service.rs:168: find_by_id(user_id).await.ok().flatten()
create_block_owner(p) ==
    /\ procs[p].op = "create_block" /\ procs[p].pc = "owner"
    /\ \E ok \in Outcomes :
        /\ LET rec == procs[p]
               user_id == Head(rec.todo)
           IN  Step(p, [rec EXCEPT !.pc = "notify",
                                   !.owner_user = IF ok /\ user_id \in DOMAIN users
                                                  THEN Some(users[user_id]) ELSE NoneV])
    /\ UNCHANGED <<users, plates, blocks, notifications, dispatched, blockSeq, plateSeq,
                   now, started, blockKey, codes>>

\* Encryption::decrypt: fails on a truncated or tampered blob
decrypt(enc) == IF enc.intact THEN Some(enc.phone) ELSE NoneV

\* PostgresNotificationRepository::create under the notifications table's constraints
notification_create(rows, user_id, type, block_id) ==
    IF notification_type_check(type)
    THEN rows \cup {[id |-> Cardinality(rows) + 1, user_id |-> user_id, type |-> type,
                     block_id |-> block_id, read |-> FALSE]}
    ELSE rows

\* block_service.rs:192-297: the tasks create_block spawns for one owner
CreateBlockDispatch(rec, user_id) ==
    LET notification_method ==
            IF IsSome(rec.request.notification_method)
            THEN Unwrap(rec.request.notification_method) ELSE "android_push"
        owner == rec.owner_user
        block_id == Unwrap(rec.block).id
        telegram == IF notification_method = "telegram" /\ IsSome(owner)
                       /\ IsSome(Unwrap(owner).telegram)
                    THEN {[channel |-> "telegram", to |-> user_id, block_id |-> block_id,
                           event |-> "block"]} ELSE {}
        push == IF notification_method # "telegram" /\ IsSome(owner)
                   /\ IsSome(Unwrap(owner).push_token)
                THEN {[channel |-> "push", to |-> user_id, block_id |-> block_id,
                       event |-> "block"]} ELSE {}
        call == IF rec.request.notify_owner /\ IsSome(owner)
                   /\ IsSome(Unwrap(owner).phone_encrypted)
                   /\ IsSome(decrypt(Unwrap(Unwrap(owner).phone_encrypted)))
                THEN {[channel |-> "call", to |-> user_id, block_id |-> block_id,
                       event |-> "block"]} ELSE {}
    IN  telegram \cup push \cup call

AfterNotificationPropagates(rec, created) ==
    IF created THEN CreateBlockLoop([rec EXCEPT !.todo = Tail(@)])
    ELSE CreateBlockDone(rec, "Database", "notification")

\* block_service.rs:171-190: let _ = ..create(..).await.map_err(log): the outcome of the
\* insert is dropped and the loop goes on
AfterNotification(rec, created) == CreateBlockLoop([rec EXCEPT !.todo = Tail(@)])

\* block_service.rs:170-297: the notification insert, then the spawns
create_block_notify(p) ==
    /\ procs[p].op = "create_block" /\ procs[p].pc = "notify"
    /\ \E ok \in Outcomes :
        /\ LET rec == procs[p]
               user_id == Head(rec.todo)
               inserted == IF ok
                           THEN notification_create(notifications, user_id, "block",
                                                    Unwrap(rec.block).id)
                           ELSE notifications
           IN  /\ notifications' = inserted
               /\ dispatched' = dispatched \cup CreateBlockDispatch(rec, user_id)
               /\ Step(p, AfterNotification(rec, inserted # notifications))
    /\ UNCHANGED <<users, plates, blocks, blockSeq, plateSeq, now, started, blockKey, codes>>

\* ------------------------------------------------ BlockService::delete_block
DeleteBlockDone(rec, result, why) ==
    [op |-> "delete_block", pc |-> "done", block_id |-> rec.block_id,
     blocker_id |-> rec.blocker_id, block |-> rec.block, deleted |-> rec.deleted,
     result |-> result, why |-> why]

\* PostgresBlockRepository::delete: the rows its WHERE clause matches.  As for exists,
\* the second parameter is the blocker's plate or the blocker's id, by build.
block_delete_matches(key, block_id, blocker_id, blocker_plate) ==
    {b \in blocks :
        /\ b.id = block_id
        /\ IF key = "plate"
           THEN SqlUpperTrim(b.blocker_plate) = SqlUpperTrim(blocker_plate)
           ELSE b.blocker_id = blocker_id}

IsCreatorAlways(block, blocker_id) == TRUE

\* block_service.rs:430: block.blocker_id != blocker_id is refused
IsCreator(block, blocker_id) == block.blocker_id = blocker_id

\* block_service.rs:424-434: find_by_id, NotFound, then the ownership check
delete_block_begin(p) ==
    /\ FirstFree(p)
    /\ started < MaxOps
    /\ started' = started + 1
    /\ \E block_id \in 1..(blockSeq + 1), blocker_id \in DOMAIN users, ok \in Outcomes :
        /\ LET found == find_block_by_id(block_id)
               rec == [op |-> "delete_block", pc |-> "delete", block_id |-> block_id,
                       blocker_id |-> blocker_id, block |-> NoneV, deleted |-> FALSE,
                       blocker_name |-> NoneV, todo |-> << >>, notified |-> {},
                       owner_user |-> NoneV]
           IN  IF ~ok THEN Step(p, DeleteBlockDone(rec, "Database", "find_by_id"))
               ELSE IF found = {} THEN Step(p, DeleteBlockDone(rec, "NotFound", "block"))
               ELSE \E block \in found :
                    IF ~IsCreator(block, blocker_id)
                    THEN Step(p, DeleteBlockDone([rec EXCEPT !.block = Some(block)],
                                                 "Auth", "not_creator"))
                    ELSE Step(p, [rec EXCEPT !.block = Some(block)])
    /\ UNCHANGED <<users, plates, blocks, notifications, dispatched, blockSeq, plateSeq,
                   now, blockKey, codes>>

\* block_service.rs:437 and PostgresBlockRepository::delete
delete_block_delete(p) ==
    /\ procs[p].op = "delete_block" /\ procs[p].pc = "delete"
    /\ \E ok \in Outcomes :
        /\ LET rec == procs[p]
               hit == block_delete_matches(blockKey, rec.block_id, rec.blocker_id,
                                           Unwrap(rec.block).blocker_plate)
           IN  IF ~ok
               THEN /\ Step(p, DeleteBlockDone(rec, "Database", "delete"))
                    /\ UNCHANGED blocks
               ELSE IF hit = {}
               THEN /\ Step(p, DeleteBlockDone(rec, "NotFound", "rows_affected"))
                    /\ UNCHANGED blocks
               ELSE /\ blocks' = blocks \ hit
                    /\ Step(p, [rec EXCEPT !.deleted = TRUE, !.pc = "blocker"])
    /\ UNCHANGED <<users, plates, notifications, dispatched, blockSeq, plateSeq,
                   now, started, blockKey, codes>>

\* block_service.rs:443-447: find_by_id(blocker_id).await? for the blocker's name
delete_block_blocker(p) ==
    /\ procs[p].op = "delete_block" /\ procs[p].pc = "blocker"
    /\ \E ok \in Outcomes :
        /\ LET rec == procs[p]
           IN  IF ~ok THEN Step(p, DeleteBlockDone(rec, "Database", "find_blocker"))
               ELSE Step(p, [rec EXCEPT !.pc = "owners"])
    /\ UNCHANGED <<users, plates, blocks, notifications, dispatched, blockSeq, plateSeq,
                   now, started, blockKey, codes>>

\* The loop header of delete_block's fan-out (block_service.rs:453-460)
DeleteBlockLoop(rec) ==
    LET rest == NextOwners(rec.todo, rec.notified, rec.blocker_id)
    IN  IF rest = << >>
        THEN DeleteBlockDone(rec, "Ok", "ok")
        ELSE [rec EXCEPT !.todo = rest, !.notified = @ \cup {Head(rest)},
                         !.owner_user = NoneV, !.pc = "owner"]

\* block_service.rs:450: if let Ok(user_plates) = find_by_plate(blocked_plate)
delete_block_owners(p) ==
    /\ procs[p].op = "delete_block" /\ procs[p].pc = "owners"
    /\ \E ok \in Outcomes :
        /\ LET rec == procs[p]
           IN  IF ~ok THEN Step(p, DeleteBlockDone(rec, "Ok", "ok"))
               ELSE \E rows \in Orderings(find_by_plate(Unwrap(rec.block).blocked_plate)) :
                        Step(p, DeleteBlockLoop(
                            [rec EXCEPT !.todo = [i \in 1..Len(rows) |-> rows[i].user_id]]))
    /\ UNCHANGED <<users, plates, blocks, notifications, dispatched, blockSeq, plateSeq,
                   now, started, blockKey, codes>>

\* block_service.rs:462: if let Some(owner_user) = find_by_id(user_id).await?
delete_block_owner(p) ==
    /\ procs[p].op = "delete_block" /\ procs[p].pc = "owner"
    /\ \E ok \in Outcomes :
        /\ LET rec == procs[p]
               user_id == Head(rec.todo)
           IN  IF ~ok THEN Step(p, DeleteBlockDone(rec, "Database", "find_owner"))
               ELSE IF user_id \in DOMAIN users
               THEN Step(p, [rec EXCEPT !.pc = "notify", !.owner_user = Some(users[user_id])])
               ELSE Step(p, DeleteBlockLoop([rec EXCEPT !.todo = Tail(@)]))
    /\ UNCHANGED <<users, plates, blocks, notifications, dispatched, blockSeq, plateSeq,
                   now, started, blockKey, codes>>

\* block_service.rs:486-503: the push delete_block spawns for one owner
DeleteBlockDispatch(rec, user_id) ==
    IF IsSome(Unwrap(rec.owner_user).push_token)
    THEN {[channel |-> "push", to |-> user_id, block_id |-> rec.block_id, event |-> "unblock"]}
    ELSE {}

\* block_service.rs:464-503: let _ = notification_repository.create(..), then the push
delete_block_notify(p) ==
    /\ procs[p].op = "delete_block" /\ procs[p].pc = "notify"
    /\ \E ok \in Outcomes :
        /\ LET rec == procs[p]
               user_id == Head(rec.todo)
           IN  /\ notifications' = IF ok
                                   THEN notification_create(notifications, user_id, "unblock",
                                                            rec.block_id)
                                   ELSE notifications
               /\ dispatched' = dispatched \cup DeleteBlockDispatch(rec, user_id)
               /\ Step(p, DeleteBlockLoop([rec EXCEPT !.todo = Tail(@)]))
    /\ UNCHANGED <<users, plates, blocks, blockSeq, plateSeq, now, started, blockKey, codes>>

\* The response has been sent; the task ends.
Return(p) ==
    /\ procs[p].op # "idle" /\ procs[p].pc = "done"
    /\ procs' = [procs EXCEPT ![p] = Idle]
    /\ UNCHANGED <<users, plates, blocks, notifications, dispatched, blockSeq, plateSeq,
                   now, started, blockKey, codes>>

\* ----------------------------------------------------------- initial states
UserRow(plate, telegram, push_token, phone_encrypted) ==
    [plate |-> plate, telegram |-> telegram, push_token |-> push_token,
     phone_encrypted |-> phone_encrypted,
     phone_hash |-> IF IsSome(phone_encrypted)
                    THEN Some(phone_hash(Unwrap(phone_encrypted).phone)) ELSE NoneV,
     show_contacts |-> TRUE]

PlateRow(id, user_id, plate, is_primary) ==
    [id |-> id, user_id |-> user_id, plate |-> plate, is_primary |-> is_primary,
     departure_time |-> NoneV, created_at |-> 0]

InitUsers ==
    [u \in Users |->
        CASE u = "u1" -> UserRow(Some(PlateA), Some("tg1"), NoneV,
                                 Some([phone |-> Phone1, intact |-> TRUE]))
          [] u = "u2" -> UserRow(Some(PlateA), NoneV, Some("tok2"),
                                 Some([phone |-> Phone2, intact |-> FALSE]))
          [] OTHER -> UserRow(Some(PlateB), Some("tg3"), Some("tok3"), NoneV)]

\* u1 and u2 share plate A; u2 also owns B, whose primary owner is u3.
SharedPlates ==
    {PlateRow(1, "u1", PlateA, TRUE), PlateRow(2, "u2", PlateA, TRUE),
     PlateRow(3, "u2", PlateB, FALSE), PlateRow(4, "u3", PlateB, TRUE)}

\* u1 has a plate but no primary one, u2 has no plate at all.
SparsePlates ==
    {PlateRow(1, "u1", PlateA, FALSE), PlateRow(2, "u3", PlateB, TRUE)}

Init ==
    /\ users = InitUsers
    /\ plates \in {SharedPlates, SparsePlates}
    /\ blocks = {}
    /\ notifications = {}
    /\ dispatched = {}
    /\ procs = [p \in Procs |-> Idle]
    /\ blockSeq = 0
    /\ plateSeq = 4
    /\ now = 1
    /\ started = 0
    /\ blockKey \in {"plate", "id"}
    /\ codes = {}

Next ==
    \E p \in Procs :
        \/ create_block_begin(p)
        \/ create_block_fallback(p)
        \/ create_block_exists(p)
        \/ create_block_insert(p)
        \/ create_block_dep_find(p)
        \/ create_block_dep_update(p)
        \/ create_block_blocker(p)
        \/ create_block_owners(p)
        \/ create_block_owner(p)
        \/ create_block_notify(p)
        \/ delete_block_begin(p)
        \/ delete_block_delete(p)
        \/ delete_block_blocker(p)
        \/ delete_block_owners(p)
        \/ delete_block_owner(p)
        \/ delete_block_notify(p)
        \/ Return(p)

Spec == Init /\ [][Next]_vars

\* ================================================== plates and the profile
\* A request on the plate store or on the profile, moving from statement to
\* statement.  primary_at_call keeps what the caller could see when it called.
PlateRequest(op, pc, user_id, plate, is_primary, plate_id) ==
    [op |-> op, pc |-> pc, user_id |-> user_id, plate |-> plate,
     is_primary |-> is_primary, plate_id |-> plate_id,
     user_plate |-> NoneV, save_plate |-> NoneV, save_phone |-> NoneV,
     phone |-> NoneV, code |-> NoneV,
     primary_at_call |-> {r.id : r \in find_primary_by_user_id(user_id)}]

\* verify_auth that got its user goes on to remove_code (auth_service.rs:162-163).
PlateDone(rec, result, why) ==
    [op |-> rec.op,
     pc |-> IF rec.op = "verify_auth" /\ result = "Ok" THEN "remove_code" ELSE "done",
     user_id |-> rec.user_id, plate |-> rec.plate,
     plate_id |-> rec.plate_id, primary_at_call |-> rec.primary_at_call,
     phone |-> rec.phone, code |-> rec.code,
     result |-> result, why |-> why]

InPlateCall(p, pc) ==
    /\ procs[p].op \in {"create_user_plate", "set_primary_plate", "get_profile",
                        "update_profile", "verify_auth"}
    /\ procs[p].pc = pc

\* The ids a client may send: those of the stored rows and one that names no row
PlateIdInputs == {r.id : r \in plates} \cup {plateSeq + 1}

\* What becomes of the caller when PostgresUserPlateRepository::create returns:
\* api/user_plate.rs:49-57, user_service.rs:71-79 and auth_service.rs:129-138 (the
\* error is only logged), user_service.rs:188 and 194 (the error is returned)
AfterCreate(rec, ok, why) ==
    IF ok
    THEN IF rec.op = "update_profile"
         THEN [rec EXCEPT !.pc = "user_find"]
         ELSE PlateDone(rec, "Ok", why)
    ELSE IF rec.op \in {"get_profile", "verify_auth"}
         THEN PlateDone(rec, "Ok", why)
         ELSE PlateDone(rec, "Database", why)

\* What becomes of the caller when PostgresUserPlateRepository::set_primary returns:
\* api/user_plate.rs:86-94, user_service.rs:185
AfterSetPrimary(rec, result, why) ==
    IF result = "Ok" /\ rec.op = "update_profile"
    THEN [rec EXCEPT !.pc = "user_find"]
    ELSE PlateDone(rec, result, why)

\* api/user_plate.rs:25-48: create_user_plate normalizes and validates, then calls create
create_user_plate(p) ==
    /\ FirstFree(p)
    /\ started < MaxOps
    /\ started' = started + 1
    /\ \E user_id \in DOMAIN users, raw \in RawPlates, is_primary \in BOOLEAN :
        LET normalized_plate == validate_plate(normalize_plate(raw))
        IN  IF ~IsSome(normalized_plate)
            THEN Step(p, PlateDone(PlateRequest("create_user_plate", "begin", user_id,
                                                normalize_plate(raw), is_primary, 0),
                                   "Validation", "plate_format"))
            ELSE Step(p, PlateRequest("create_user_plate",
                                      IF is_primary THEN "create_clear" ELSE "create_insert",
                                      user_id, Unwrap(normalized_plate), is_primary, 0))
    /\ UNCHANGED <<users, plates, blocks, notifications, dispatched, blockSeq, plateSeq,
                   now, blockKey, codes>>

\* user_plate_repository.rs:39-50: UPDATE .. SET is_primary = false
\* WHERE user_id = $1 AND is_primary = true
create_clear_primary(rows, user_id) ==
    {IF r.user_id = user_id /\ r.is_primary THEN [r EXCEPT !.is_primary = FALSE] ELSE r :
        r \in rows}

\* PostgresUserPlateRepository::create, first statement (only when is_primary)
user_plate_create_clear(p) ==
    /\ InPlateCall(p, "create_clear")
    /\ \E ok \in Outcomes :
        LET rec == procs[p]
        IN  IF ~ok
            THEN /\ Step(p, AfterCreate(rec, FALSE, "create_clear"))
                 /\ UNCHANGED plates
            ELSE /\ plates' = create_clear_primary(plates, rec.user_id)
                 /\ Step(p, [rec EXCEPT !.pc = "create_insert"])
    /\ UNCHANGED <<users, blocks, notifications, dispatched, blockSeq, plateSeq, now,
                   started, blockKey, codes>>

\* user_plate_repository.rs:54-71: INSERT .. ON CONFLICT (user_id, plate) DO UPDATE SET
\* is_primary = EXCLUDED.is_primary, departure_time = COALESCE(EXCLUDED.., old)
user_plate_upsert(rows, id, user_id, plate, is_primary, departure_time, created_at) ==
    IF user_plate_conflict(rows, user_id, plate) = {}
    THEN rows \cup {[id |-> id, user_id |-> user_id, plate |-> plate,
                     is_primary |-> is_primary, departure_time |-> departure_time,
                     created_at |-> created_at]}
    ELSE {IF r.user_id = user_id /\ r.plate = plate
          THEN [r EXCEPT !.is_primary = is_primary,
                         !.departure_time = IF IsSome(departure_time)
                                            THEN departure_time ELSE @]
          ELSE r : r \in rows}

\* PostgresUserPlateRepository::create, the INSERT
user_plate_create_insert(p) ==
    /\ InPlateCall(p, "create_insert")
    /\ \E ok \in Outcomes :
        LET rec == procs[p]
            rows == user_plate_upsert(plates, plateSeq + 1, rec.user_id, rec.plate,
                                      rec.is_primary, NoneV, now)
        IN  IF ~ok
            THEN /\ Step(p, AfterCreate(rec, FALSE, "create_insert"))
                 /\ UNCHANGED <<plates, plateSeq, now>>
            ELSE IF ~plate_format(rec.plate)
            THEN /\ Step(p, AfterCreate(rec, FALSE, "plate_format"))
                 /\ UNCHANGED <<plates, plateSeq, now>>
            ELSE IF ~idx_user_plates_primary(rows)
            THEN /\ Step(p, AfterCreate(rec, FALSE, "idx_user_plates_primary"))
                 /\ UNCHANGED <<plates, plateSeq, now>>
            ELSE /\ plates' = rows
                 /\ IF user_plate_conflict(plates, rec.user_id, rec.plate) = {}
                    THEN plateSeq' = plateSeq + 1 /\ now' \in Tick(now)
                    ELSE UNCHANGED <<plateSeq, now>>
                 /\ Step(p, AfterCreate(rec, TRUE, "created"))
    /\ UNCHANGED <<users, blocks, notifications, dispatched, blockSeq, started, blockKey, codes>>

\* api/user_plate.rs:77-86: set_primary_plate hands the path id to set_primary
set_primary_plate(p) ==
    /\ FirstFree(p)
    /\ started < MaxOps
    /\ started' = started + 1
    /\ \E user_id \in DOMAIN users, plate_id \in PlateIdInputs :
        Step(p, PlateRequest("set_primary_plate", "set_check", user_id, << >>, TRUE, plate_id))
    /\ UNCHANGED <<users, plates, blocks, notifications, dispatched, blockSeq, plateSeq,
                   now, blockKey, codes>>

\* user_plate_repository.rs:146-164: SELECT .. WHERE id = $1 AND user_id = $2, NotFound if none
set_primary_check(p) ==
    /\ InPlateCall(p, "set_check")
    /\ \E ok \in Outcomes :
        LET rec == procs[p]
        IN  IF ~ok THEN Step(p, AfterSetPrimary(rec, "Database", "set_check"))
            ELSE IF ~\E r \in plates : r.id = rec.plate_id /\ r.user_id = rec.user_id
            THEN Step(p, AfterSetPrimary(rec, "NotFound", "user_plate"))
            ELSE Step(p, [rec EXCEPT !.pc = "set_clear"])
    /\ UNCHANGED <<users, plates, blocks, notifications, dispatched, blockSeq, plateSeq,
                   now, started, blockKey, codes>>

\* user_plate_repository.rs:166-176: UPDATE .. SET is_primary = false WHERE user_id = $1
set_primary_clear_all(rows, user_id) ==
    {IF r.user_id = user_id THEN [r EXCEPT !.is_primary = FALSE] ELSE r : r \in rows}

set_primary_clear(p) ==
    /\ InPlateCall(p, "set_clear")
    /\ \E ok \in Outcomes :
        LET rec == procs[p]
        IN  IF ~ok
            THEN /\ Step(p, AfterSetPrimary(rec, "Database", "set_clear"))
                 /\ UNCHANGED plates
            ELSE /\ plates' = set_primary_clear_all(plates, rec.user_id)
                 /\ Step(p, [rec EXCEPT !.pc = "set_set"])
    /\ UNCHANGED <<users, blocks, notifications, dispatched, blockSeq, plateSeq, now,
                   started, blockKey, codes>>

\* user_plate_repository.rs:178-187: UPDATE .. SET is_primary = true WHERE id = $1
set_primary_by_id(rows, id) ==
    {IF r.id = id THEN [r EXCEPT !.is_primary = TRUE] ELSE r : r \in rows}

\* The last statement of set_primary; the number of rows it changed is not looked at
set_primary_set(p) ==
    /\ InPlateCall(p, "set_set")
    /\ \E ok \in Outcomes :
        LET rec == procs[p]
            rows == set_primary_by_id(plates, rec.plate_id)
        IN  IF ~ok
            THEN /\ Step(p, AfterSetPrimary(rec, "Database", "set_set"))
                 /\ UNCHANGED plates
            ELSE IF ~idx_user_plates_primary(rows)
            THEN /\ Step(p, AfterSetPrimary(rec, "Database", "idx_user_plates_primary"))
                 /\ UNCHANGED plates
            ELSE /\ plates' = rows
                 /\ Step(p, AfterSetPrimary(rec, "Ok", "set"))
    /\ UNCHANGED <<users, blocks, notifications, dispatched, blockSeq, plateSeq, now,
                   started, blockKey, codes>>

\* api/user_plate.rs:97-115 and PostgresUserPlateRepository::delete:
\* DELETE .. WHERE id = $1 AND user_id = $2, NotFound when no row went
delete_user_plate(p) ==
    /\ FirstFree(p)
    /\ started < MaxOps
    /\ started' = started + 1
    /\ \E user_id \in DOMAIN users, plate_id \in PlateIdInputs, ok \in Outcomes :
        LET rec == PlateRequest("delete_user_plate", "begin", user_id, << >>, FALSE, plate_id)
            gone == {r \in plates : r.id = plate_id /\ r.user_id = user_id}
        IN  IF ~ok
            THEN /\ Step(p, PlateDone(rec, "Database", "delete"))
                 /\ UNCHANGED plates
            ELSE IF gone = {}
            THEN /\ Step(p, PlateDone(rec, "NotFound", "rows_affected"))
                 /\ UNCHANGED plates
            ELSE /\ plates' = plates \ gone
                 /\ Step(p, PlateDone(rec, "Ok", "deleted"))
    /\ UNCHANGED <<users, blocks, notifications, dispatched, blockSeq, plateSeq, now,
                   blockKey, codes>>

\* user_service.rs:27-38: get_profile loads the user row
get_profile(p) ==
    /\ FirstFree(p)
    /\ started < MaxOps
    /\ started' = started + 1
    /\ \E user_id \in DOMAIN users, ok \in Outcomes :
        LET rec == PlateRequest("get_profile", "profile_primary", user_id, << >>, TRUE, 0)
        IN  IF ~ok THEN Step(p, PlateDone(rec, "Database", "find_by_id"))
            ELSE Step(p, [rec EXCEPT !.user_plate = users[user_id].plate])
    /\ UNCHANGED <<users, plates, blocks, notifications, dispatched, blockSeq, plateSeq,
                   now, blockKey, codes>>

\* user_service.rs:42-86: find_primary_by_user_id, then either the copy of the primary
\* plate into users.plate or the creation of a primary row from users.plate
get_profile_primary(p) ==
    /\ procs[p].op = "get_profile" /\ procs[p].pc = "profile_primary"
    /\ \E ok \in Outcomes :
        LET rec == procs[p]
            primary == find_primary_by_user_id(rec.user_id)
        IN  IF ok /\ primary # {}
            THEN \E primary_plate \in primary :
                    IF rec.user_plate # Some(primary_plate.plate)
                    THEN Step(p, [rec EXCEPT !.save_plate = Some(primary_plate.plate),
                                             !.pc = "user_find"])
                    ELSE Step(p, PlateDone(rec, "Ok", "in_sync"))
            ELSE IF IsSome(rec.user_plate) /\ normalize_plate(Unwrap(rec.user_plate)) # << >>
                 THEN Step(p, [rec EXCEPT !.plate = normalize_plate(Unwrap(rec.user_plate)),
                                          !.pc = "create_clear"])
                 ELSE Step(p, PlateDone(rec, "Ok", "no_plate"))
    /\ UNCHANGED <<users, plates, blocks, notifications, dispatched, blockSeq, plateSeq,
                   now, started, blockKey, codes>>

\* The plate field of an update_profile request: absent, empty, or some text
ProfilePlates == {NoneV, Some(<< >>)} \cup {Some(raw) : raw \in RawPlates}

\* The phone field of an update_profile request: absent, or some text
ProfilePhones == {NoneV, Some(Phone1), Some(RawPhoneShort)}

\* user_service.rs:119-166 and 170-171: validation of a non-empty phone and of a
\* non-empty plate, normalization
update_profile(p) ==
    /\ FirstFree(p)
    /\ started < MaxOps
    /\ started' = started + 1
    /\ \E user_id \in DOMAIN users, plate \in ProfilePlates, phone \in ProfilePhones :
        LET rec == PlateRequest("update_profile", "update_primary", user_id, << >>, TRUE, 0)
        IN  IF IsSome(phone) /\ Unwrap(phone) # << >> /\ ~IsSome(validate_phone(Unwrap(phone)))
            THEN Step(p, PlateDone(rec, "Validation", "phone_format"))
            ELSE IF IsSome(plate) /\ Unwrap(plate) # << >>
                    /\ ~IsSome(validate_plate(Unwrap(plate)))
            THEN Step(p, PlateDone(rec, "Validation", "plate_format"))
            ELSE Step(p, [rec EXCEPT
                            !.save_plate = IF IsSome(plate)
                                           THEN Some(normalize_plate(Unwrap(plate)))
                                           ELSE NoneV,
                            !.save_phone = IF IsSome(phone) /\ normalize_phone(Unwrap(phone)) # << >>
                                           THEN Some(normalize_phone(Unwrap(phone)))
                                           ELSE NoneV])
    /\ UNCHANGED <<users, plates, blocks, notifications, dispatched, blockSeq, plateSeq,
                   now, blockKey, codes>>

\* user_service.rs:170-202: find_primary_by_user_id; a failed lookup counts as no primary
update_profile_primary(p) ==
    /\ procs[p].op = "update_profile" /\ procs[p].pc = "update_primary"
    /\ \E ok \in Outcomes :
        LET rec == procs[p]
            primary == find_primary_by_user_id(rec.user_id)
        IN  IF IsSome(rec.save_plate)
            THEN LET normalized_plate == normalize_plate(Unwrap(rec.save_plate))
                 IN  IF ok /\ primary # {}
                     THEN \E primary_plate \in primary :
                            IF primary_plate.plate # normalized_plate
                            THEN Step(p, [rec EXCEPT !.plate = normalized_plate,
                                                     !.pc = "update_existing"])
                            ELSE Step(p, [rec EXCEPT !.pc = "user_find"])
                     ELSE Step(p, [rec EXCEPT !.plate = normalized_plate,
                                              !.pc = "create_clear"])
            ELSE IF ok /\ primary # {}
                 THEN \E primary_plate \in primary :
                        Step(p, [rec EXCEPT !.save_plate = Some(primary_plate.plate),
                                            !.pc = "user_find"])
                 ELSE Step(p, [rec EXCEPT !.pc = "user_find"])
    /\ UNCHANGED <<users, plates, blocks, notifications, dispatched, blockSeq, plateSeq,
                   now, started, blockKey, codes>>

\* user_service.rs:180-189: find_by_user_id, then set_primary on the row that already
\* has the plate, or create
update_profile_existing(p) ==
    /\ procs[p].op = "update_profile" /\ procs[p].pc = "update_existing"
    /\ \E ok \in Outcomes :
        LET rec == procs[p]
            existing_plate == {r \in plates : r.user_id = rec.user_id /\ r.plate = rec.plate}
        IN  IF ~ok THEN Step(p, PlateDone(rec, "Database", "find_by_user_id"))
            ELSE IF existing_plate # {}
            THEN \E existing \in existing_plate :
                    Step(p, [rec EXCEPT !.plate_id = existing.id, !.pc = "set_check"])
            ELSE Step(p, [rec EXCEPT !.pc = "create_clear"])
    /\ UNCHANGED <<users, plates, blocks, notifications, dispatched, blockSeq, plateSeq,
                   now, started, blockKey, codes>>

\* user_repository.rs:122-127: update first reads the current row
user_update_find(p) ==
    /\ procs[p].op \in {"get_profile", "update_profile", "verify_auth"}
    /\ procs[p].pc = "user_find"
    /\ \E ok \in Outcomes :
        LET rec == procs[p]
        IN  IF ok
            THEN Step(p, [rec EXCEPT !.user_plate = users[rec.user_id].plate,
                                     !.pc = "user_write"])
            ELSE Step(p, PlateDone(rec, IF rec.op = "update_profile" THEN "Database" ELSE "Ok",
                                   "user_find"))
    /\ UNCHANGED <<users, plates, blocks, notifications, dispatched, blockSeq, plateSeq,
                   now, started, blockKey, codes>>

PhoneIndexMissing(rows) == TRUE

\* db/init.rs:231-237: CREATE UNIQUE INDEX idx_users_phone_hash_unique ON
\* users(phone_hash) WHERE phone_hash IS NOT NULL
idx_users_phone_hash_unique(rows) ==
    \A u1, u2 \in DOMAIN rows :
        (u1 # u2 /\ IsSome(rows[u1].phone_hash)) => rows[u1].phone_hash # rows[u2].phone_hash

\* user_repository.rs:151-154 and 206-244: UPDATE users SET plate = the plate handed in,
\* or the one read before, phone_encrypted and phone_hash = COALESCE(new, old).
\* user_service.rs:59-61 and auth_service.rs:112-118 drop a failure, user_service.rs:231
\* returns it.
user_update_write(p) ==
    /\ procs[p].op \in {"get_profile", "update_profile", "verify_auth"}
    /\ procs[p].pc = "user_write"
    /\ \E ok \in Outcomes :
        LET rec == procs[p]
            plate == IF IsSome(rec.save_plate) THEN rec.save_plate ELSE rec.user_plate
            row == [users[rec.user_id] EXCEPT
                        !.plate = plate,
                        !.phone_encrypted = IF IsSome(rec.save_phone)
                                            THEN Some(encrypt(Unwrap(rec.save_phone))) ELSE @,
                        !.phone_hash = IF IsSome(rec.save_phone)
                                       THEN Some(phone_hash(Unwrap(rec.save_phone))) ELSE @]
            rows == [users EXCEPT ![rec.user_id] = row]
            failed(why) == PlateDone(rec, IF rec.op = "update_profile" THEN "Database"
                                          ELSE "Ok", why)
        IN  IF ~ok
            THEN UNCHANGED users /\ Step(p, failed("user_write"))
            ELSE IF IsSome(plate) /\ ~plate_format(Unwrap(plate))
            THEN UNCHANGED users /\ Step(p, failed("plate_format"))
            ELSE IF ~idx_users_phone_hash_unique(rows)
            THEN UNCHANGED users /\ Step(p, failed("idx_users_phone_hash_unique"))
            ELSE users' = rows /\ Step(p, PlateDone(rec, "Ok", "saved"))
    /\ UNCHANGED <<plates, blocks, notifications, dispatched, blockSeq, plateSeq, now,
                   started, blockKey, codes>>

\* The plate store and the profile, without the block workflow
NextPlate ==
    \E p \in Procs :
        \/ create_user_plate(p)
        \/ user_plate_create_clear(p)
        \/ user_plate_create_insert(p)
        \/ set_primary_plate(p)
        \/ set_primary_check(p)
        \/ set_primary_clear(p)
        \/ set_primary_set(p)
        \/ delete_user_plate(p)
        \/ get_profile(p)
        \/ get_profile_primary(p)
        \/ update_profile(p)
        \/ update_profile_primary(p)
        \/ update_profile_existing(p)
        \/ user_update_find(p)
        \/ user_update_write(p)
        \/ Return(p)

SpecPlate == Init /\ [][NextPlate]_vars

\* ============================================================ authorization
\* The phones a client may send to verify_auth
AuthPhones == {Phone1, Phone2, Phone9, RawPhone9, RawPhoneShort}

\* Uuid::new_v4() for a new users row
NewUserIds == {"u4", "u5"}

\* PostgresUserRepository::find_by_phone_hash (LIMIT 1)
find_by_phone_hash(hash) == {u \in DOMAIN users : users[u].phone_hash = Some(hash)}

\* The codes a client may send to verify_auth
CodeTexts == {"1111", "2222"}

\* An entry of SmsService::codes; the key of the HashMap is the phone
CodeEntry(phone, code, expires_at) == [phone |-> phone, code |-> code, expires_at |-> expires_at]

\* SmsService::generate_code: codes.insert(phone, entry)
generate_code(entries, phone, code, expires_at) ==
    {e \in entries : e.phone # phone} \cup {CodeEntry(phone, code, expires_at)}

\* SmsService::verify_code: under the read lock, the entry of the phone has this code
\* and is not expired
verify_code(entries, phone, code, clock) ==
    \E e \in entries : e.phone = phone /\ e.code = code /\ e.expires_at > clock

\* SmsService::remove_code: codes.remove(phone)
remove_code(entries, phone) == {e \in entries : e.phone # phone}

\* The codes start_auth issued for three phones: two outlive the requests that
\* follow, the one of Phone2 expires at the next instant
AuthCodes ==
    generate_code(generate_code(generate_code({}, Phone1, "1111", 2 * MaxOps + 3),
                                Phone9, "1111", 2 * MaxOps + 3),
                  Phone2, "1111", 2)

\* auth_service.rs:74-79: validate_phone, verify_code
verify_auth(p) ==
    /\ FirstFree(p)
    /\ started < MaxOps
    /\ started' = started + 1
    /\ \E phone \in AuthPhones, code \in CodeTexts :
        LET normalized_phone == validate_phone(phone)
            none == [PlateRequest("verify_auth", "auth_find", "nobody", << >>, TRUE, 0)
                     EXCEPT !.phone = normalized_phone, !.code = Some(code)]
        IN  IF ~IsSome(normalized_phone)
            THEN Step(p, PlateDone(none, "Validation", "phone_format"))
            ELSE IF ~verify_code(codes, Unwrap(normalized_phone), code, now)
            THEN Step(p, PlateDone(none, "Auth", "code"))
            ELSE Step(p, none)
    /\ UNCHANGED <<users, plates, blocks, notifications, dispatched, blockSeq, plateSeq,
                   now, blockKey, codes>>

\* auth_service.rs:81-89: find_by_phone_hash, whose failure is returned
verify_auth_find(p) ==
    /\ procs[p].op = "verify_auth" /\ procs[p].pc = "auth_find"
    /\ \E ok \in Outcomes :
        LET rec == procs[p]
            found == find_by_phone_hash(phone_hash(Unwrap(rec.phone)))
        IN  IF ~ok THEN Step(p, PlateDone(rec, "Database", "find_by_phone_hash"))
            ELSE IF found = {}
            THEN Step(p, [rec EXCEPT !.save_phone = rec.phone, !.pc = "auth_create"])
            ELSE \E user_id \in found :
                    Step(p, [rec EXCEPT
                                !.user_id = user_id,
                                !.user_plate = users[user_id].plate,
                                !.primary_at_call =
                                    {r.id : r \in find_primary_by_user_id(user_id)},
                                !.pc = "auth_primary"])
    /\ UNCHANGED <<users, plates, blocks, notifications, dispatched, blockSeq, plateSeq,
                   now, started, blockKey, codes>>

\* auth_service.rs:162-171: remove_code under the write lock, then the token
verify_auth_remove_code(p) ==
    /\ procs[p].op = "verify_auth" /\ procs[p].pc = "remove_code"
    /\ codes' = remove_code(codes, Unwrap(procs[p].phone))
    /\ Step(p, [procs[p] EXCEPT !.pc = "done"])
    /\ UNCHANGED <<users, plates, blocks, notifications, dispatched, blockSeq, plateSeq,
                   now, started, blockKey>>

\* auth_service.rs:95-147: find_primary_by_user_id, whose failure is returned, then
\* either the copy of the primary plate into users.plate or the creation of a primary
\* row from users.plate
verify_auth_primary(p) ==
    /\ procs[p].op = "verify_auth" /\ procs[p].pc = "auth_primary"
    /\ \E ok \in Outcomes :
        LET rec == procs[p]
            primary == find_primary_by_user_id(rec.user_id)
        IN  IF ~ok THEN Step(p, PlateDone(rec, "Database", "find_primary"))
            ELSE IF primary # {}
            THEN \E primary_plate \in primary :
                    IF rec.user_plate # Some(primary_plate.plate)
                    THEN Step(p, [rec EXCEPT !.save_plate = Some(primary_plate.plate),
                                             !.pc = "user_find"])
                    ELSE Step(p, PlateDone(rec, "Ok", "in_sync"))
            ELSE IF IsSome(rec.user_plate) /\ normalize_plate(Unwrap(rec.user_plate)) # << >>
                 THEN Step(p, [rec EXCEPT !.plate = normalize_plate(Unwrap(rec.user_plate)),
                                          !.pc = "create_clear"])
                 ELSE Step(p, PlateDone(rec, "Ok", "no_plate"))
    /\ UNCHANGED <<users, plates, blocks, notifications, dispatched, blockSeq, plateSeq,
                   now, started, blockKey, codes>>

\* auth_service.rs:149-159 and PostgresUserRepository::create: INSERT INTO users, the
\* plate stored as NULL
verify_auth_create(p) ==
    /\ procs[p].op = "verify_auth" /\ procs[p].pc = "auth_create"
    /\ NewUserIds \ DOMAIN users # {}
    /\ \E ok \in Outcomes :
        LET rec == procs[p]
            new_user_id == CHOOSE u \in NewUserIds \ DOMAIN users : TRUE
            row == UserRow(NoneV, NoneV, NoneV, Some(encrypt(Unwrap(rec.save_phone))))
            rows == [u \in DOMAIN users \cup {new_user_id} |->
                        IF u = new_user_id THEN row ELSE users[u]]
        IN  IF ~ok
            THEN UNCHANGED users /\ Step(p, PlateDone(rec, "Database", "create"))
            ELSE IF ~idx_users_phone_hash_unique(rows)
            THEN UNCHANGED users
                 /\ Step(p, PlateDone(rec, "Database", "idx_users_phone_hash_unique"))
            ELSE users' = rows
                 /\ Step(p, PlateDone([rec EXCEPT !.user_id = new_user_id], "Ok", "created"))
    /\ UNCHANGED <<plates, blocks, notifications, dispatched, blockSeq, plateSeq, now,
                   started, blockKey, codes>>

\* Rows of users written before the plate store existed or by earlier requests:
\* users.plate of u1 is a plate other than the one u1 has in the store, the legacy plate
\* of u2 passes the column's CHECK and is not a plate of the grammar, u3
\* has none
AuthUsers ==
    [u \in Users |->
        CASE u = "u1" -> UserRow(Some(PlateB), Some("tg1"), NoneV,
                                 Some([phone |-> Phone1, intact |-> TRUE]))
          [] u = "u2" -> UserRow(Some(LegacyPlateBad), NoneV, Some("tok2"),
                                 Some([phone |-> Phone2, intact |-> TRUE]))
          [] OTHER -> UserRow(NoneV, Some("tg3"), Some("tok3"), NoneV)]

InitAuth ==
    /\ users = AuthUsers
    /\ plates \in {SharedPlates, SparsePlates}
    /\ blocks = {}
    /\ notifications = {}
    /\ dispatched = {}
    /\ procs = [p \in Procs |-> Idle]
    /\ blockSeq = 0
    /\ plateSeq = 4
    /\ now = 1
    /\ started = 0
    /\ blockKey = "id"
    /\ codes = AuthCodes

\* Authorization and the profile
NextAuth ==
    \E p \in Procs :
        \/ verify_auth(p)
        \/ verify_auth_find(p)
        \/ verify_auth_primary(p)
        \/ verify_auth_create(p)
        \/ verify_auth_remove_code(p)
        \/ get_profile(p)
        \/ get_profile_primary(p)
        \/ update_profile(p)
        \/ update_profile_primary(p)
        \/ update_profile_existing(p)
        \/ user_plate_create_clear(p)
        \/ user_plate_create_insert(p)
        \/ set_primary_check(p)
        \/ set_primary_clear(p)
        \/ set_primary_set(p)
        \/ user_update_find(p)
        \/ user_update_write(p)
        \/ Return(p)

SpecAuth == InitAuth /\ [][NextAuth]_vars

\* ===================================================== queries on the blocks
\* A query runs while no other request is in flight: the requests of this part
\* write to no table, so their interleavings are their sequences.
Alone(p) == p = "p1" /\ \A q \in Procs : procs[q] = Idle

QueryDone(rec, result, why, response) ==
    [op |-> rec.op, pc |-> "done", user_id |-> rec.user_id, plate |-> rec.plate,
     block_id |-> rec.block_id, result |-> result, why |-> why, response |-> response]

QueryRequest(op, pc, user_id, plate, block_id) ==
    [op |-> op, pc |-> pc, user_id |-> user_id, plate |-> plate, block_id |-> block_id,
     found |-> << >>, plates_todo |-> << >>, todo |-> << >>, acc |-> << >>,
     blocker_name |-> NoneV]

\* ORDER BY created_at DESC: the orders in which the store may return the rows
CreatedAtDesc(S) ==
    {s \in Orderings(S) : \A i, j \in 1..Len(s) : i < j => s[i].created_at >= s[j].created_at}

\* PostgresBlockRepository::find_by_blocked_plate
find_by_blocked_plate(blocked_plate) ==
    CreatedAtDesc({b \in blocks : SqlUpperTrim(b.blocked_plate) = SqlUpperTrim(blocked_plate)})

\* PostgresBlockRepository::find_by_blocker_id
find_by_blocker_id(blocker_id) ==
    CreatedAtDesc({b \in blocks : b.blocker_id = blocker_id})

\* PostgresBlockRepository::find_by_blocker_plates: no statement for an empty list
find_by_blocker_plates(plate_strings) ==
    CreatedAtDesc({b \in blocks :
        \E i \in 1..Len(plate_strings) :
            SqlUpperTrim(b.blocker_plate) = SqlUpperTrim(plate_strings[i])})

\* PostgresUserPlateRepository::find_by_user_id, ORDER BY is_primary DESC, created_at DESC
find_by_user_id(user_id) ==
    {s \in Orderings({r \in plates : r.user_id = user_id}) :
        \A i, j \in 1..Len(s) : i < j =>
            \/ (s[i].is_primary /\ ~s[j].is_primary)
            \/ (s[i].is_primary = s[j].is_primary /\ s[i].created_at >= s[j].created_at)}

last_returned(rows) == rows[Len(rows)]

\* Iterator::max_by_key(|b| b.created_at): of several maxima, the last one
max_by_key(rows) ==
    LET m == CHOOSE t \in {rows[i].created_at : i \in 1..Len(rows)} :
                 \A i \in 1..Len(rows) : rows[i].created_at <= t
        last == CHOOSE i \in 1..Len(rows) :
                    /\ rows[i].created_at = m
                    /\ \A j \in 1..Len(rows) : rows[j].created_at = m => j <= i
    IN  rows[last]

to_public_info_open(user, phone_decrypted) ==
    [plate |-> IF IsSome(user.plate) THEN Unwrap(user.plate) ELSE << >>,
     phone |-> phone_decrypted,
     telegram |-> IF user.show_contacts THEN user.telegram ELSE NoneV]

\* models/user.rs: User::to_public_info
to_public_info(user, phone_decrypted) ==
    [plate |-> IF IsSome(user.plate) THEN Unwrap(user.plate) ELSE << >>,
     phone |-> IF user.show_contacts THEN phone_decrypted ELSE NoneV,
     telegram |-> IF user.show_contacts THEN user.telegram ELSE NoneV]

\* block_service.rs:539-553 and 379-391: BlockWithBlockerInfo built from a block and
\* the row of its blocker
BlockWithBlockerInfo(block, blocker_user) ==
    LET phone_decrypted == IF IsSome(blocker_user.phone_encrypted)
                           THEN decrypt(Unwrap(blocker_user.phone_encrypted)) ELSE NoneV
    IN  [id |-> block.id, blocked_plate |-> block.blocked_plate,
         created_at |-> block.created_at, blocker_id |-> block.blocker_id,
         blocker |-> to_public_info(blocker_user, phone_decrypted)]

NotBlocked == [is_blocked |-> FALSE, block |-> NoneV]

\* block_service.rs:518-535: validate, find_by_blocked_plate, the latest block
check_block(p) ==
    /\ Alone(p)
    /\ started < MaxOps
    /\ started' = started + 1
    /\ \E raw \in RawPlates, ok \in Outcomes :
        LET normalized_plate == validate_plate(raw)
            rec == QueryRequest("check_block", "blocker", "anyone", raw, 0)
        IN  IF ~IsSome(normalized_plate)
            THEN Step(p, QueryDone(rec, "Validation", "plate_format", NotBlocked))
            ELSE IF ~ok
            THEN Step(p, QueryDone(rec, "Database", "find_by_blocked_plate", NotBlocked))
            ELSE \E rows \in find_by_blocked_plate(Unwrap(normalized_plate)) :
                    IF rows = << >>
                    THEN Step(p, QueryDone([rec EXCEPT !.plate = Unwrap(normalized_plate)],
                                           "Ok", "not_blocked", NotBlocked))
                    ELSE Step(p, [rec EXCEPT !.plate = Unwrap(normalized_plate),
                                             !.found = << max_by_key(rows) >>])
    /\ UNCHANGED <<users, plates, blocks, notifications, dispatched, blockSeq, plateSeq,
                   now, blockKey, codes>>

\* block_service.rs:538-560: the blocker's row and the response
check_block_blocker(p) ==
    /\ procs[p].op = "check_block" /\ procs[p].pc = "blocker"
    /\ \E ok \in Outcomes :
        LET rec == procs[p]
            latest_block == rec.found[1]
        IN  IF ~ok THEN Step(p, QueryDone(rec, "Database", "find_by_id", NotBlocked))
            ELSE IF latest_block.blocker_id \in DOMAIN users
            THEN Step(p, QueryDone(rec, "Ok", "blocked",
                        [is_blocked |-> TRUE,
                         block |-> Some(BlockWithBlockerInfo(latest_block,
                                                             users[latest_block.blocker_id]))]))
            ELSE Step(p, QueryDone(rec, "Ok", "blocked", [is_blocked |-> TRUE, block |-> NoneV]))
    /\ UNCHANGED <<users, plates, blocks, notifications, dispatched, blockSeq, plateSeq,
                   now, started, blockKey, codes>>

\* slice::sort_by(|a, b| b.created_at.cmp(&a.created_at)): stable, newest first
RECURSIVE sort_by_created_at_desc(_)
sort_by_created_at_desc(rows) ==
    IF rows = << >> THEN rows
    ELSE LET init == sort_by_created_at_desc(SubSeq(rows, 1, Len(rows) - 1))
             x == rows[Len(rows)]
             k == Cardinality({i \in 1..Len(init) : init[i].created_at >= x.created_at})
         IN  SubSeq(init, 1, k) \o << x >> \o SubSeq(init, k + 1, Len(init))

\* Vec::dedup_by(|a, b| a.id == b.id): drops an element equal to the one before it
RECURSIVE dedup_by_id(_)
dedup_by_id(rows) ==
    IF Len(rows) <= 1 THEN rows
    ELSE LET init == dedup_by_id(SubSeq(rows, 1, Len(rows) - 1))
             x == rows[Len(rows)]
         IN  IF init[Len(init)].id = x.id THEN init ELSE Append(init, x)

\* block_service.rs:314: find_by_blocker_id
get_my_blocks(p) ==
    /\ Alone(p)
    /\ started < MaxOps
    /\ started' = started + 1
    /\ \E blocker_id \in DOMAIN users, ok \in Outcomes :
        LET rec == QueryRequest("get_my_blocks", "plates", blocker_id, << >>, 0)
        IN  IF ~ok THEN Step(p, QueryDone(rec, "Database", "find_by_blocker_id", << >>))
            ELSE \E result \in find_by_blocker_id(blocker_id) :
                    Step(p, [rec EXCEPT !.acc = result])
    /\ UNCHANGED <<users, plates, blocks, notifications, dispatched, blockSeq, plateSeq,
                   now, blockKey, codes>>

\* block_service.rs:316-317: find_by_user_id, the plate strings
get_my_blocks_plates(p) ==
    /\ procs[p].op = "get_my_blocks" /\ procs[p].pc = "plates"
    /\ \E ok \in Outcomes :
        LET rec == procs[p]
        IN  IF ~ok THEN Step(p, QueryDone(rec, "Database", "find_by_user_id", << >>))
            ELSE \E rows \in find_by_user_id(rec.user_id) :
                    Step(p, [rec EXCEPT !.plates_todo = [i \in 1..Len(rows) |-> rows[i].plate],
                                        !.pc = "shared"])
    /\ UNCHANGED <<users, plates, blocks, notifications, dispatched, blockSeq, plateSeq,
                   now, started, blockKey, codes>>

\* block_service.rs:318-324: find_by_blocker_plates, append, sort_by, dedup_by
get_my_blocks_shared(p) ==
    /\ procs[p].op = "get_my_blocks" /\ procs[p].pc = "shared"
    /\ \E ok \in Outcomes :
        LET rec == procs[p]
        IN  IF rec.plates_todo = << >>
            THEN /\ ok
                 /\ Step(p, QueryDone(rec, "Ok", "listed",
                                      dedup_by_id(sort_by_created_at_desc(rec.acc))))
            ELSE IF ~ok
            THEN Step(p, QueryDone(rec, "Database", "find_by_blocker_plates", << >>))
            ELSE \E shared \in find_by_blocker_plates(rec.plates_todo) :
                    Step(p, QueryDone(rec, "Ok", "listed",
                            dedup_by_id(sort_by_created_at_desc(rec.acc \o shared))))
    /\ UNCHANGED <<users, plates, blocks, notifications, dispatched, blockSeq, plateSeq,
                   now, started, blockKey, codes>>

\* The my_plate parameter of get_blocks_for_my_plate
MyPlates == {NoneV} \cup {Some(raw) : raw \in RawPlates}

\* block_service.rs:340-362 and 394-407: get_blocks_for_plate has no block left to
\* enrich; its result goes to the caller, which returns it or merges it and goes on
AfterBlocksForPlate(rec) ==
    IF IsSome(rec.plate)
    THEN QueryDone(rec, "Ok", "listed", rec.found)
    ELSE LET seen_block_ids == {rec.acc[i].id : i \in 1..Len(rec.acc)}
             NotSeen(b) == b.id \notin seen_block_ids
             all_blocks == rec.acc \o SelectSeq(rec.found, NotSeen)
         IN  IF Len(rec.plates_todo) <= 1
             THEN QueryDone(rec, "Ok", "listed", sort_by_created_at_desc(all_blocks))
             ELSE [rec EXCEPT !.acc = all_blocks, !.plates_todo = Tail(@),
                              !.found = << >>, !.pc = "plate_blocks"]

\* block_service.rs:340-349: a given plate is validated, else find_by_user_id
get_blocks_for_my_plate(p) ==
    /\ Alone(p)
    /\ started < MaxOps
    /\ started' = started + 1
    /\ \E user_id \in DOMAIN users, my_plate \in MyPlates, ok \in Outcomes :
        LET rec == QueryRequest("get_blocks_for_my_plate", "plate_blocks", user_id, my_plate, 0)
        IN  IF IsSome(my_plate)
            THEN /\ ok
                 /\ IF IsSome(validate_plate(Unwrap(my_plate)))
                    THEN Step(p, [rec EXCEPT !.plates_todo = validate_plate(Unwrap(my_plate))])
                    ELSE Step(p, QueryDone(rec, "Validation", "plate_format", << >>))
            ELSE IF ~ok THEN Step(p, QueryDone(rec, "Database", "find_by_user_id", << >>))
            ELSE \E user_plates \in find_by_user_id(user_id) :
                    IF user_plates = << >>
                    THEN Step(p, QueryDone(rec, "Ok", "listed", << >>))
                    ELSE Step(p, [rec EXCEPT !.plates_todo =
                                    [i \in 1..Len(user_plates) |-> user_plates[i].plate]])
    /\ UNCHANGED <<users, plates, blocks, notifications, dispatched, blockSeq, plateSeq,
                   now, blockKey, codes>>

\* block_service.rs:384: get_blocks_for_plate, find_by_blocked_plate
get_blocks_for_plate(p) ==
    /\ procs[p].op = "get_blocks_for_my_plate" /\ procs[p].pc = "plate_blocks"
    /\ \E ok \in Outcomes :
        LET rec == procs[p]
        IN  IF ~ok THEN Step(p, QueryDone(rec, "Database", "find_by_blocked_plate", << >>))
            ELSE \E rows \in find_by_blocked_plate(Head(rec.plates_todo)) :
                    IF rows = << >>
                    THEN Step(p, AfterBlocksForPlate([rec EXCEPT !.found = << >>]))
                    ELSE Step(p, [rec EXCEPT !.todo = rows, !.found = << >>,
                                             !.pc = "plate_blocker"])
    /\ UNCHANGED <<users, plates, blocks, notifications, dispatched, blockSeq, plateSeq,
                   now, started, blockKey, codes>>

\* block_service.rs:388-404: find_by_id of the blocker, the enriched block
get_blocks_for_plate_blocker(p) ==
    /\ procs[p].op = "get_blocks_for_my_plate" /\ procs[p].pc = "plate_blocker"
    /\ \E ok \in Outcomes :
        LET rec == procs[p]
            block == Head(rec.todo)
            result == IF block.blocker_id \in DOMAIN users
                      THEN Append(rec.found, BlockWithBlockerInfo(block, users[block.blocker_id]))
                      ELSE rec.found
            next == [rec EXCEPT !.found = result, !.todo = Tail(@)]
        IN  IF ~ok THEN Step(p, QueryDone(rec, "Database", "find_by_id", << >>))
            ELSE IF next.todo = << >> THEN Step(p, AfterBlocksForPlate(next))
            ELSE Step(p, next)
    /\ UNCHANGED <<users, plates, blocks, notifications, dispatched, blockSeq, plateSeq,
                   now, started, blockKey, codes>>

\* block_service.rs:574-583: warn_owner finds the block and checks its creator
warn_owner(p) ==
    /\ Alone(p)
    /\ started < MaxOps
    /\ started' = started + 1
    /\ \E block_id \in 1..(blockSeq + 1), blocker_id \in DOMAIN users, ok \in Outcomes :
        LET rec == QueryRequest("warn_owner", "blocker", blocker_id, << >>, block_id)
            found == find_block_by_id(block_id)
        IN  IF ~ok THEN Step(p, QueryDone(rec, "Database", "find_by_id", << >>))
            ELSE IF found = {} THEN Step(p, QueryDone(rec, "NotFound", "block", << >>))
            ELSE \E block \in found :
                    IF block.blocker_id # blocker_id
                    THEN Step(p, QueryDone(rec, "Auth", "not_creator", << >>))
                    ELSE Step(p, [rec EXCEPT !.found = << block >>])
    /\ UNCHANGED <<users, plates, blocks, notifications, dispatched, blockSeq, plateSeq,
                   now, blockKey, codes>>

\* block_service.rs:586-590: find_by_id(blocker_id), NotFound when there is no such user
warn_owner_blocker(p) ==
    /\ procs[p].op = "warn_owner" /\ procs[p].pc = "blocker"
    /\ \E ok \in Outcomes :
        LET rec == procs[p]
        IN  IF ~ok THEN Step(p, QueryDone(rec, "Database", "find_blocker", << >>))
            ELSE IF rec.user_id \notin DOMAIN users
            THEN Step(p, QueryDone(rec, "NotFound", "blocker", << >>))
            ELSE Step(p, [rec EXCEPT !.pc = "owners"])
    /\ UNCHANGED <<users, plates, blocks, notifications, dispatched, blockSeq, plateSeq,
                   now, started, blockKey, codes>>

KeepBlocker(todo, blocker_id) == todo

\* block_service.rs:598-605: the next row of another user, or the end of the loop
SkipBlocker(todo, blocker_id) ==
    LET others == {i \in 1..Len(todo) : todo[i] # blocker_id}
    IN  IF others = {} THEN << >>
        ELSE SubSeq(todo, CHOOSE i \in others : \A j \in others : i <= j, Len(todo))

\* block_service.rs:598-647: one turn of the loop, or Ok(()) with nobody called
WarnOwnerLoop(rec) ==
    LET rest == SkipBlocker(rec.todo, rec.user_id)
    IN  IF rest = << >> THEN QueryDone(rec, "Ok", "nobody", << >>)
        ELSE [rec EXCEPT !.todo = rest, !.pc = "owner"]

\* block_service.rs:593-595: find_by_plate(block.blocked_plate)
warn_owner_owners(p) ==
    /\ procs[p].op = "warn_owner" /\ procs[p].pc = "owners"
    /\ \E ok \in Outcomes :
        LET rec == procs[p]
        IN  IF ~ok THEN Step(p, QueryDone(rec, "Database", "find_by_plate", << >>))
            ELSE \E rows \in Orderings(find_by_plate(rec.found[1].blocked_plate)) :
                    Step(p, WarnOwnerLoop(
                        [rec EXCEPT !.todo = [i \in 1..Len(rows) |-> rows[i].user_id]]))
    /\ UNCHANGED <<users, plates, blocks, notifications, dispatched, blockSeq, plateSeq,
                   now, started, blockKey, codes>>

\* block_service.rs:607-636: find_by_id(user_id), decrypt, spawn the call and break
warn_owner_owner(p) ==
    /\ procs[p].op = "warn_owner" /\ procs[p].pc = "owner"
    /\ \E ok \in Outcomes :
        LET rec == procs[p]
            user_id == Head(rec.todo)
            owner_user == users[user_id]
        IN  IF ~ok
            THEN /\ Step(p, QueryDone(rec, "Database", "find_owner", << >>))
                 /\ UNCHANGED dispatched
            ELSE IF /\ user_id \in DOMAIN users
                    /\ IsSome(owner_user.phone_encrypted)
                    /\ IsSome(decrypt(Unwrap(owner_user.phone_encrypted)))
            THEN /\ dispatched' = dispatched \cup
                        {[channel |-> "call", to |-> user_id, block_id |-> rec.block_id,
                          event |-> "warn"]}
                 /\ Step(p, QueryDone(rec, "Ok", "called", << user_id >>))
            ELSE /\ Step(p, WarnOwnerLoop([rec EXCEPT !.todo = Tail(@)]))
                 /\ UNCHANGED dispatched
    /\ UNCHANGED <<users, plates, blocks, notifications, blockSeq, plateSeq,
                   now, started, blockKey, codes>>

\* u1 and u3 hide their contacts (users.show_contacts = false); u2 shows them and
\* its phone decrypts
HiddenUsers ==
    [u \in Users |->
        [InitUsers[u] EXCEPT !.show_contacts = (u = "u2"),
                             !.phone_encrypted =
                                 IF u = "u2" THEN Some([phone |-> Phone2, intact |-> TRUE])
                                 ELSE @]]

\* A row of the blocks table as PostgresBlockRepository::create writes it
BlockRow(id, blocker_id, blocker_plate, blocked_plate, created_at) ==
    [id |-> id, blocker_id |-> blocker_id, blocker_plate |-> blocker_plate,
     blocked_plate |-> blocked_plate, created_at |-> created_at]

\* The blocks earlier create_block calls may have left: u1 and u2, co-owners of A,
\* each block B, u3 blocks A; each block at one of two instants or not at all.
StoredBlocks ==
    {S \in SUBSET ({BlockRow(1, "u1", PlateA, PlateB, t) : t \in 1..2} \cup
                   {BlockRow(2, "u2", PlateA, PlateB, t) : t \in 1..2} \cup
                   {BlockRow(3, "u3", PlateB, PlateA, t) : t \in 1..2}) :
        \A b1, b2 \in S : b1.id = b2.id => b1 = b2}

InitQuery ==
    /\ users \in {InitUsers, HiddenUsers}
    /\ plates \in {SharedPlates, SparsePlates}
    /\ blocks \in StoredBlocks
    /\ notifications = {}
    /\ dispatched = {}
    /\ procs = [p \in Procs |-> Idle]
    /\ blockSeq = 3
    /\ plateSeq = 4
    /\ now = 2
    /\ started = 0
    /\ blockKey = "id"
    /\ codes = {}

NextQuery ==
    \E p \in Procs :
        \/ check_block(p)
        \/ check_block_blocker(p)
        \/ get_my_blocks(p)
        \/ get_my_blocks_plates(p)
        \/ get_my_blocks_shared(p)
        \/ get_blocks_for_my_plate(p)
        \/ get_blocks_for_plate(p)
        \/ get_blocks_for_plate_blocker(p)
        \/ warn_owner(p)
        \/ warn_owner_blocker(p)
        \/ warn_owner_owners(p)
        \/ warn_owner_owner(p)
        \/ Return(p)

SpecQuery == InitQuery /\ [][NextQuery]_vars

\* ============================================== plate rows addressed by their id
\* The departure_time field of an update_user_plate request
DepartureTimes == {NoneV, Some(TimeWellFormed), Some(TimeMalformed)}

\* api/user_plate.rs:117-140: update_user_plate parses the time and hands the path id
\* to update_departure_time, which returns NotFound when the UPDATE returned no row
update_user_plate(p) ==
    /\ FirstFree(p)
    /\ started < MaxOps
    /\ started' = started + 1
    /\ \E user_id \in DOMAIN users, plate_id \in PlateIdInputs,
          departure_time \in DepartureTimes, ok \in Outcomes :
        LET rec == PlateRequest("update_user_plate", "begin", user_id, << >>, FALSE, plate_id)
            time == IF IsSome(departure_time) THEN parse_time(Unwrap(departure_time))
                    ELSE NoneV
            returning == {r \in plates : r.id = plate_id /\ r.user_id = user_id}
        IN  IF IsSome(departure_time) /\ ~IsSome(time)
            THEN /\ Step(p, PlateDone(rec, "Validation", "departure_time"))
                 /\ UNCHANGED plates
            ELSE IF ~ok
            THEN /\ Step(p, PlateDone(rec, "Database", "update"))
                 /\ UNCHANGED plates
            ELSE /\ plates' = update_departure_time(plates, plate_id, user_id, time)
                 /\ IF returning = {}
                    THEN Step(p, PlateDone(rec, "NotFound", "user_plate"))
                    ELSE Step(p, PlateDone(rec, "Ok", "updated"))
    /\ UNCHANGED <<users, blocks, notifications, dispatched, blockSeq, plateSeq, now,
                   blockKey, codes>>

InitOwner ==
    /\ users = InitUsers
    /\ plates \in {SharedPlates, SparsePlates}
    /\ blocks = {}
    /\ notifications = {}
    /\ dispatched = {}
    /\ procs = [p \in Procs |-> Idle]
    /\ blockSeq = 0
    /\ plateSeq = 4
    /\ now = 1
    /\ started = 0
    /\ blockKey = "id"
    /\ codes = {}

\* The requests that name a plate row by its id
NextOwner ==
    \E p \in Procs :
        \/ set_primary_plate(p)
        \/ set_primary_check(p)
        \/ set_primary_clear(p)
        \/ set_primary_set(p)
        \/ delete_user_plate(p)
        \/ update_user_plate(p)
        \/ Return(p)

SpecOwner == InitOwner /\ [][NextOwner]_vars

\* =============================================== the validators, on their own
\* Texts a client may send as a plate: a first part, three digits, two letters and
\* the region digits, each well or badly formed
PlateTexts ==
    {a \o d \o l \o r :
        a \in {<<"A">>, <<"a">>, <<"CY_A">>, <<"cy_a">>, <<"1">>, << >>},
        d \in {<<"1", "2", "3">>, <<"1", "-", "1", "1">>, <<"1", "A", "1">>, <<"1", "1">>},
        l \in {<<"A", "B">>, <<"a", "s">>, <<" ", "A", "B">>, <<"sharp_s">>, <<"A", "1">>,
               <<"A">>, <<"A", "/">>},
        r \in {<<"7", "7">>, <<"7", "7", "7">>, <<"7">>, <<"7", "7", "7", "7">>,
               <<"7", "A">>, <<"7", " ", "7">>}}

\* Texts a client may send as a phone
PhoneTexts ==
    {a \o b :
        a \in {<< >>, <<"+">>, <<"+", "7">>, <<"8">>, <<"7">>, <<"9">>, <<"+", "1">>,
               <<"(">>, <<"8", " ">>},
        b \in {<< >>, <<"9", "0", "0", "1", "2", "3", "4", "5", "6", "7">>,
               <<"9", "0", "0">>,
               <<"(", "9", "0", "0", ")", " ", "1", "2", "3", "-", "4", "5", "6", "7">>}}

\* ValidationService::validate_plate applied to a text
validate_plate_text(p) ==
    /\ Alone(p)
    /\ started < MaxOps
    /\ started' = started + 1
    /\ \E raw \in PlateTexts :
        Step(p, [op |-> "validate_plate", pc |-> "done", input |-> raw,
                 normalized |-> normalize_plate(raw), output |-> validate_plate(raw),
                 result |-> IF IsSome(validate_plate(raw)) THEN "Ok" ELSE "Validation"])
    /\ UNCHANGED <<users, plates, blocks, notifications, dispatched, blockSeq, plateSeq,
                   now, blockKey, codes>>

\* ValidationService::validate_phone applied to a text
validate_phone_text(p) ==
    /\ Alone(p)
    /\ started < MaxOps
    /\ started' = started + 1
    /\ \E raw \in PhoneTexts :
        Step(p, [op |-> "validate_phone", pc |-> "done", input |-> raw,
                 normalized |-> normalize_phone(raw), output |-> validate_phone(raw),
                 result |-> IF IsSome(validate_phone(raw)) THEN "Ok" ELSE "Validation"])
    /\ UNCHANGED <<users, plates, blocks, notifications, dispatched, blockSeq, plateSeq,
                   now, blockKey, codes>>

NextText ==
    \E p \in Procs :
        \/ validate_plate_text(p)
        \/ validate_phone_text(p)
        \/ Return(p)

SpecText == InitOwner /\ [][NextText]_vars

\* ================================== a plate that changed hands under a block
\* u3 blocked plate A while u2 owned it.  Since then u2 may have removed the plate
\* (delete_user_plate) and u1 may have added it (create_user_plate).
PlateAOwnedByU2 == {PlateRow(2, "u2", PlateA, TRUE), PlateRow(4, "u3", PlateB, TRUE)}
PlateAOwnedByNobody == {PlateRow(4, "u3", PlateB, TRUE)}
PlateAOwnedByU1 == {PlateRow(5, "u1", PlateA, TRUE), PlateRow(4, "u3", PlateB, TRUE)}

InitEvent ==
    /\ users \in {InitUsers, HiddenUsers}
    /\ plates \in {PlateAOwnedByU2, PlateAOwnedByNobody, PlateAOwnedByU1}
    /\ blocks = {BlockRow(1, "u3", PlateB, PlateA, 1)}
    /\ notifications = {}
    /\ dispatched = {}
    /\ procs = [p \in Procs |-> Idle]
    /\ blockSeq = 1
    /\ plateSeq = 5
    /\ now = 2
    /\ started = 0
    /\ blockKey \in {"plate", "id"}
    /\ codes = {}

NextEvent ==
    \E p \in Procs :
        \/ delete_block_begin(p)
        \/ delete_block_delete(p)
        \/ delete_block_blocker(p)
        \/ delete_block_owners(p)
        \/ delete_block_owner(p)
        \/ delete_block_notify(p)
        \/ warn_owner(p)
        \/ warn_owner_blocker(p)
        \/ warn_owner_owners(p)
        \/ warn_owner_owner(p)
        \/ Return(p)

SpecEvent == InitEvent /\ [][NextEvent]_vars

\* ======================================= create_block, one call after another
\* u1 blocked plate B while A was its primary plate, then added C and made it the
\* primary one (create_user_plate, set_primary_plate).
ChangedPrimaryPlates ==
    {PlateRow(1, "u1", PlateA, FALSE), PlateRow(5, "u1", PlateC, TRUE),
     PlateRow(4, "u3", PlateB, TRUE)}

InitSequential ==
    /\ users = InitUsers
    /\ plates \in {ChangedPrimaryPlates, SparsePlates}
    /\ blocks \in {{}, {BlockRow(1, "u1", PlateA, PlateB, 1)}}
    /\ notifications = {}
    /\ dispatched = {}
    /\ procs = [p \in Procs |-> Idle]
    /\ blockSeq = 1
    /\ plateSeq = 5
    /\ now = 2
    /\ started = 0
    /\ blockKey \in {"plate", "id"}
    /\ codes = {}

\* A create_block request that arrives when no other request is being served
create_block_alone(p) == Alone(p) /\ create_block_begin(p)

NextSequential ==
    \E p \in Procs :
        \/ create_block_alone(p)
        \/ create_block_fallback(p)
        \/ create_block_exists(p)
        \/ create_block_insert(p)
        \/ create_block_dep_find(p)
        \/ create_block_dep_update(p)
        \/ create_block_blocker(p)
        \/ create_block_owners(p)
        \/ create_block_owner(p)
        \/ create_block_notify(p)
        \/ Return(p)

SpecSequential == InitSequential /\ [][NextSequential]_vars

\* ============================== the profile after a plate row was deleted
\* No request is being served: every task is free or has its response ready
Quiet == \A q \in Procs : IF procs[q] = Idle THEN TRUE ELSE procs[q].pc = "done"

\* Requests that arrive one after the other
delete_user_plate_next(p) == Quiet /\ delete_user_plate(p)
get_profile_next(p) == Quiet /\ get_profile(p)
verify_auth_next(p) == Quiet /\ verify_auth(p)

InitDeleted ==
    /\ users \in {InitUsers, AuthUsers}
    /\ plates = SharedPlates
    /\ blocks = {}
    /\ notifications = {}
    /\ dispatched = {}
    /\ procs = [p \in Procs |-> Idle]
    /\ blockSeq = 0
    /\ plateSeq = 4
    /\ now = 1
    /\ started = 0
    /\ blockKey = "id"
    /\ codes = AuthCodes

NextDeleted ==
    \E p \in Procs :
        \/ delete_user_plate_next(p)
        \/ get_profile_next(p)
        \/ get_profile_primary(p)
        \/ verify_auth_next(p)
        \/ verify_auth_find(p)
        \/ verify_auth_primary(p)
        \/ verify_auth_create(p)
        \/ verify_auth_remove_code(p)
        \/ user_plate_create_clear(p)
        \/ user_plate_create_insert(p)
        \/ user_update_find(p)
        \/ user_update_write(p)
        \/ Return(p)

SpecDeleted == InitDeleted /\ [][NextDeleted]_vars

\* ============================================================= properties
SamePair(b1, b2) ==
    b1.blocker_plate = b2.blocker_plate /\ b1.blocked_plate = b2.blocked_plate

\* The users who own the plate now, apart from the blocker
OwnersToNotify(plate, blocker_id) ==
    {r.user_id : r \in find_by_plate(plate)} \ {blocker_id}

CreateBlockReturned(p) == procs[p].op = "create_block" /\ procs[p].pc = "done"
DeleteBlockReturned(p) == procs[p].op = "delete_block" /\ procs[p].pc = "done"

\* C1: the block store never holds two blocks with the same
\* (blocker_plate, blocked_plate) pair.
OneBlockPerPlatePair ==
    \A b1, b2 \in blocks : SamePair(b1, b2) => b1.id = b2.id

\* C2: a create_block call that returned success did not add a second row for a
\* (blocker_plate, blocked_plate) pair that an earlier row already holds: the call
\* that comes second gets an error.
RaceLoserGetsError ==
    \A p \in Procs :
        (CreateBlockReturned(p) /\ procs[p].result = "Ok") =>
            ~\E b \in blocks : /\ b.id < Unwrap(procs[p].block).id
                               /\ SamePair(b, Unwrap(procs[p].block))

\* C3: a create_block call whose resolved blocker plate equals the normalized target
\* plate, ASCII case ignored, has returned the self-block validation error and has
\* persisted nothing; and no stored block has blocker_plate equal to blocked_plate.
NoSelfBlock ==
    /\ \A p \in Procs :
        (/\ procs[p].op = "create_block"
         /\ IsSome(procs[p].blocker_primary_plate)
         /\ eq_ignore_ascii_case(Unwrap(procs[p].blocker_primary_plate),
                                 Unwrap(procs[p].normalized_plate)))
        => (/\ procs[p].pc = "done"
            /\ procs[p].result = "Validation" /\ procs[p].why = "self_block"
            /\ procs[p].block = NoneV)
    /\ \A b \in blocks : ~eq_ignore_ascii_case(b.blocker_plate, b.blocked_plate)

\* C3 witness: a call with a lower-case, hyphenated spelling of the caller's own
\* plate was refused as a self-block.
NoSelfBlockWitness ==
    \E p \in Procs :
        /\ CreateBlockReturned(p) /\ procs[p].why = "self_block"
        /\ Unwrap(procs[p].normalized_plate) = PlateA

\* C4: delete_block on an existing block by a user who is not its creator ends at
\* its first statement with an authorization error (a database error if that lookup
\* itself failed) and changes no store: the block stays, nothing is notified or sent.
NonCreatorDeleteRefused ==
    [][\A p \in Procs :
        (/\ procs[p] = Idle
         /\ procs'[p].op = "delete_block"
         /\ \E b \in blocks : b.id = procs'[p].block_id /\ b.blocker_id # procs'[p].blocker_id)
        => (/\ procs'[p].pc = "done"
            /\ procs'[p].result \in {"Auth", "Database"}
            /\ procs'[p].result = "Auth" <=> procs'[p].why = "not_creator"
            /\ UNCHANGED <<blocks, notifications, dispatched, plates, users>>)]_vars

\* C4 witness: a non-creator was refused and the block is still stored.
NonCreatorDeleteWitness ==
    \E p \in Procs :
        /\ DeleteBlockReturned(p) /\ procs[p].result = "Auth"
        /\ Unwrap(procs[p].block) \in blocks
        /\ Unwrap(procs[p].block).blocker_id # procs[p].blocker_id

\* C8: once create_block has returned a block, every owner of the blocked plate other
\* than the blocker has exactly one unread "block" notification for that block id.
OwnerHasBlockNotification ==
    \A p \in Procs :
        (CreateBlockReturned(p) /\ procs[p].result = "Ok") =>
            \A u \in OwnersToNotify(Unwrap(procs[p].block).blocked_plate, procs[p].blocker_id) :
                Cardinality({n \in notifications :
                                /\ n.user_id = u /\ n.type = "block" /\ ~n.read
                                /\ n.block_id = Unwrap(procs[p].block).id}) = 1

\* C9: once the creator's delete_block has returned success, the block is gone from
\* the store and every owner of the blocked plate other than the blocker has an
\* "unblock" notification for that block id.
OwnerHasUnblockNotification ==
    \A p \in Procs :
        (DeleteBlockReturned(p) /\ procs[p].result = "Ok") =>
            /\ find_block_by_id(procs[p].block_id) = {}
            /\ \A u \in OwnersToNotify(Unwrap(procs[p].block).blocked_plate,
                                       procs[p].blocker_id) :
                \E n \in notifications :
                    n.user_id = u /\ n.type = "unblock" /\ n.block_id = procs[p].block_id

\* C10: after create_block has persisted its block, every further step of that call
\* leaves the block store alone and keeps the block, and the call can only end by
\* returning that block.
PersistedBlockIsReturned ==
    [][\A p \in Procs :
        (/\ procs[p].op = "create_block" /\ procs[p].pc # "done"
         /\ IsSome(procs[p].block)
         /\ procs'[p] # procs[p])
        => (/\ blocks' = blocks
            /\ procs'[p].op = "create_block"
            /\ procs'[p].block = procs[p].block
            /\ procs'[p].pc = "done" => procs'[p].result = "Ok")]_vars

\* C10 witness: the call returned its block although the notification for an owner
\* of the blocked plate was not stored.
PersistedBlockWitness ==
    \E p \in Procs :
        /\ CreateBlockReturned(p) /\ procs[p].result = "Ok"
        /\ Unwrap(procs[p].block) \in blocks
        /\ \E u \in OwnersToNotify(Unwrap(procs[p].block).blocked_plate, procs[p].blocker_id) :
            ~\E n \in notifications : n.user_id = u /\ n.block_id = Unwrap(procs[p].block).id

\* C5: in every state each user has at most one plate row with is_primary = true.
AtMostOnePrimary ==
    \A u \in Users : Cardinality(find_primary_by_user_id(u)) <= 1

\* C5 witness: a statement that would have given a user a second primary row was
\* rejected, and that user still has one primary row.
AtMostOnePrimaryWitness ==
    \E p \in Procs :
        /\ procs[p].op # "idle" /\ procs[p].pc = "done"
        /\ procs[p].why = "idx_user_plates_primary"
        /\ Cardinality(find_primary_by_user_id(procs[p].user_id)) = 1

\* C6: when set_primary(B, user) returns success for a user who had another plate as
\* primary when the call came, the user's primary rows are then exactly row B.
SetPrimaryMakesPrimary ==
    [][\A p \in Procs :
        (/\ InPlateCall(p, "set_set")
         /\ procs'[p] # procs[p]
         /\ ~(procs'[p].pc = "done" /\ procs'[p].result # "Ok")
         /\ procs[p].primary_at_call # {}
         /\ procs[p].plate_id \notin procs[p].primary_at_call)
        => {r.id : r \in {x \in plates' : x.user_id = procs[p].user_id /\ x.is_primary}}
              = {procs[p].plate_id}]_vars

\* C7: no statement of a set_primary, or of a create with is_primary = true, takes a
\* user who has one primary row to a state, visible to every other request, in which
\* the user has none or two.
PrimaryChangeIsAtomic ==
    [][\A p \in Procs :
        (/\ procs[p].op \in {"create_user_plate", "set_primary_plate", "get_profile",
                             "update_profile"}
         /\ procs[p].pc \in {"create_clear", "create_insert", "set_clear", "set_set"}
         /\ procs[p].is_primary
         /\ procs'[p] # procs[p]
         /\ Cardinality(find_primary_by_user_id(procs[p].user_id)) = 1)
        => Cardinality({x \in plates' : x.user_id = procs[p].user_id /\ x.is_primary}) = 1]_vars

\* C11: once delete_block has deleted the block, the call returns success whatever
\* fails afterwards, and the block stays deleted.
DeleteFanoutFailureHidden ==
    \A p \in Procs :
        (DeleteBlockReturned(p) /\ procs[p].deleted) =>
            /\ procs[p].result = "Ok"
            /\ find_block_by_id(procs[p].block_id) = {}

\* The notification rows stored for a block
BlockNotifications(block_id) ==
    {n \in notifications : n.block_id = block_id /\ n.type = "block"}

\* C12: once create_block has returned its block, the users who have a notification row
\* for it are exactly the owners of the blocked plate other than the blocker, with one
\* row for each.
NotifiedAreTheOwners ==
    \A p \in Procs :
        (CreateBlockReturned(p) /\ procs[p].result = "Ok") =>
            LET block == Unwrap(procs[p].block)
                rows == BlockNotifications(block.id)
            IN  /\ {n.user_id : n \in rows}
                      = OwnersToNotify(block.blocked_plate, procs[p].blocker_id)
                /\ \A n1, n2 \in rows : n1.user_id = n2.user_id => n1 = n2

\* C13: for an owner that create_block has looked up, the call sends by Telegram when
\* the request asks for Telegram and the owner has a handle, otherwise by push when the
\* owner has a push token, and never by both.
OneChannelPerOwner ==
    [][\A p \in Procs :
        (/\ procs[p].op = "create_block" /\ procs[p].pc = "notify"
         /\ procs'[p] # procs[p]
         /\ IsSome(procs[p].owner_user))
        => LET owner == Unwrap(procs[p].owner_user)
               sent == {d \in dispatched' :
                           /\ d.to = Head(procs[p].todo)
                           /\ d.block_id = Unwrap(procs[p].block).id
                           /\ d.channel \in {"telegram", "push"}}
           IN  {d.channel : d \in sent} =
                   IF /\ procs[p].request.notification_method = Some("telegram")
                      /\ IsSome(owner.telegram)
                   THEN {"telegram"}
                   ELSE IF IsSome(owner.push_token) THEN {"push"} ELSE {}]_vars

\* The blocks stored for a plate
BlocksOn(plate) ==
    {b \in blocks : SqlUpperTrim(b.blocked_plate) = SqlUpperTrim(plate)}

CheckBlockReturned(p) ==
    procs[p].op = "check_block" /\ procs[p].pc = "done" /\ procs[p].result = "Ok"

\* C14: a check_block that succeeds on a plate with stored blocks answers is_blocked =
\* true with a stored block of that plate whose created_at is the maximum among them,
\* whatever the order of the rows; on a plate with none it answers not blocked.
CheckBlockReturnsLatest ==
    \A p \in Procs :
        CheckBlockReturned(p) =>
            LET on == BlocksOn(procs[p].plate)
                response == procs[p].response
            IN  IF on = {} THEN response = NotBlocked
                ELSE /\ response.is_blocked
                     /\ IsSome(response.block)
                     /\ \E b \in on : b.id = Unwrap(response.block).id
                                      /\ b.created_at = Unwrap(response.block).created_at
                     /\ \A b \in on : b.created_at <= Unwrap(response.block).created_at

CheckBlockReturnsLatestWitness ==
    \E p \in Procs :
        /\ CheckBlockReturned(p)
        /\ IsSome(procs[p].response.block)
        /\ \E b \in BlocksOn(procs[p].plate) :
              /\ b.created_at < Unwrap(procs[p].response.block).created_at
              /\ b.id < Unwrap(procs[p].response.block).id

\* The ids of the blocks get_my_blocks is to return for a user
MyBlockIds(user_id) ==
    {b.id : b \in {x \in blocks :
        \/ x.blocker_id = user_id
        \/ \E r \in plates : r.user_id = user_id
                             /\ SqlUpperTrim(x.blocker_plate) = SqlUpperTrim(r.plate)}}

\* C15: a get_my_blocks that succeeds returns the blocks the user created and the blocks
\* created from a plate the user owns, each id once, newest first.
MyBlocksOnceNewestFirst ==
    \A p \in Procs :
        (procs[p].op = "get_my_blocks" /\ procs[p].pc = "done" /\ procs[p].result = "Ok") =>
            LET response == procs[p].response
            IN  /\ {response[i].id : i \in 1..Len(response)} = MyBlockIds(procs[p].user_id)
                /\ \A i, j \in 1..Len(response) :
                      /\ (i # j => response[i].id # response[j].id)
                      /\ (i < j => response[i].created_at >= response[j].created_at)

\* The enriched blocks in the answer of a check_block or get_blocks_for_my_plate
ReturnedBlockerInfos(p) ==
    IF procs[p].op = "check_block" /\ procs[p].pc = "done" /\ procs[p].result = "Ok"
    THEN IF IsSome(procs[p].response.block) THEN {Unwrap(procs[p].response.block)} ELSE {}
    ELSE IF /\ procs[p].op = "get_blocks_for_my_plate" /\ procs[p].pc = "done"
            /\ procs[p].result = "Ok"
    THEN {procs[p].response[i] : i \in 1..Len(procs[p].response)}
    ELSE {}

\* Other phones and handles the blocker's row could hold
ContactVariants ==
    [phone_encrypted : {NoneV, Some([phone |-> Phone1, intact |-> TRUE]),
                        Some([phone |-> Phone9, intact |-> TRUE])},
     telegram : {NoneV, Some("tg1"), Some("tg9")}]

\* C16: an enriched block returned by check_block or get_blocks_for_my_plate for a
\* blocker whose show_contacts is false is the one the call returns in every store
\* that differs only in that blocker's phone and handle.
HiddenContactsNotReturned ==
    \A p \in Procs : \A info \in ReturnedBlockerInfos(p) :
        ~users[info.blocker_id].show_contacts =>
            \A v \in ContactVariants :
                BlockWithBlockerInfo(info,
                    [users[info.blocker_id] EXCEPT !.phone_encrypted = v.phone_encrypted,
                                                   !.telegram = v.telegram]) = info

HiddenContactsWitness ==
    \E p \in Procs : \E info \in ReturnedBlockerInfos(p) :
        /\ procs[p].op = "get_blocks_for_my_plate"
        /\ ~users[info.blocker_id].show_contacts
        /\ IsSome(users[info.blocker_id].telegram)
        /\ IsSome(users[info.blocker_id].phone_encrypted)
        /\ IsSome(decrypt(Unwrap(users[info.blocker_id].phone_encrypted)))

\* The owners warn_owner may call for a block: the users with a row for the blocked
\* plate, other than the blocker, whose phone decrypts
WarnOwnerCallable(block) ==
    {u \in {r.user_id : r \in find_by_plate(block.blocked_plate)} \ {block.blocker_id} :
        /\ IsSome(users[u].phone_encrypted)
        /\ IsSome(decrypt(Unwrap(users[u].phone_encrypted)))}

WarnOwnerCall(block_id, user_id) ==
    [channel |-> "call", to |-> user_id, block_id |-> block_id, event |-> "warn"]

\* C20: a warn_owner whose statements succeed returns NotFound for an absent block and
\* an authorization error for a requester who is not the creator, and then places no
\* call; otherwise it places one call if some owner of the blocked plate other than the
\* blocker has a phone that decrypts, to such an owner, and none if there is none; no
\* step of it places any other call.
WarnOwnerCallsOneOwner ==
    [][\A p \in Procs :
        (procs'[p] # procs[p] /\ procs'[p].op = "warn_owner") =>
            IF procs'[p].pc # "done" THEN dispatched' = dispatched
            ELSE LET rec == procs'[p]
                     found == find_block_by_id(rec.block_id)
                 IN  /\ (rec.result # "Database" /\ found = {}) => rec.result = "NotFound"
                     /\ (rec.result # "Database" /\ found # {}
                           /\ \A b \in found : b.blocker_id # rec.user_id)
                        => rec.result = "Auth"
                     /\ rec.result # "Ok" => (rec.response = << >> /\ dispatched' = dispatched)
                     /\ rec.result = "Ok" =>
                          \E b \in found :
                             /\ b.blocker_id = rec.user_id
                             /\ IF WarnOwnerCallable(b) = {}
                                THEN rec.response = << >> /\ dispatched' = dispatched
                                ELSE /\ Len(rec.response) = 1
                                     /\ rec.response[1] \in WarnOwnerCallable(b)
                                     /\ dispatched' = dispatched \cup
                                           {WarnOwnerCall(rec.block_id, rec.response[1])}]_vars

WarnOwnerCallsOneOwnerWitness ==
    \E p \in Procs :
        /\ procs[p].op = "warn_owner" /\ procs[p].pc = "done" /\ procs[p].result = "Ok"
        /\ Len(procs[p].response) = 1
        /\ \E b \in find_block_by_id(procs[p].block_id) :
              Cardinality(WarnOwnerCallable(b)) = 2
        /\ WarnOwnerCall(procs[p].block_id, procs[p].response[1]) \in dispatched

\* C19: no two rows of users have the same phone hash, nor the same phone.
PhoneHashUnique ==
    \A a, b \in DOMAIN users :
        a # b =>
            /\ IsSome(users[a].phone_hash) => users[a].phone_hash # users[b].phone_hash
            /\ IsSome(users[a].phone_encrypted) =>
                  (~IsSome(users[b].phone_encrypted)
                   \/ Unwrap(users[a].phone_encrypted).phone
                        # Unwrap(users[b].phone_encrypted).phone)

\* Two verify_auth calls for one unregistered phone ran together, and one row was stored
PhoneHashUniqueWitness ==
    \E p, q \in Procs :
        /\ p # q
        /\ procs[p].op = "verify_auth" /\ procs[p].pc = "done"
        /\ procs[p].why = "idx_users_phone_hash_unique"
        /\ procs[q].op = "verify_auth" /\ procs[q].pc = "done" /\ procs[q].why = "created"
        /\ find_by_phone_hash(phone_hash(Phone9)) # {}

\* A step of a get_profile or verify_auth call that runs while no other request is in
\* flight
ReconcileStep(p) ==
    /\ procs[p].op \in {"get_profile", "verify_auth"}
    /\ procs'[p] # procs[p]
    /\ procs'[p].op = procs[p].op
    /\ procs[p].user_id \in DOMAIN users
    /\ \A q \in Procs \ {p} : procs[q] = Idle /\ procs'[q] = Idle

\* The primary rows of a user whose plate is not the text of users.plate
OtherPrimary(user_id) ==
    {r \in find_primary_by_user_id(user_id) : users[user_id].plate # Some(r.plate)}

\* C17: while a user has a primary plate that differs from users.plate, no step of a
\* get_profile or verify_auth call changes the plate store, and the call whose UPDATE
\* of users succeeds leaves users.plate equal to the primary plate.
ReconcileStoreToLegacy ==
    [][\A p \in Procs :
        (ReconcileStep(p) /\ OtherPrimary(procs[p].user_id) # {}) =>
            /\ plates' = plates
            /\ (procs'[p].pc = "done" /\ procs'[p].why = "saved") =>
                  \E r \in OtherPrimary(procs[p].user_id) :
                      users'[procs[p].user_id].plate = Some(r.plate)]_vars

\* C18: a get_profile or verify_auth call writes a plate row only for a user who has
\* no primary plate and whose users.plate is a plate of the grammar, and it does not
\* return without writing one for such a user.
ReconcileLegacyToStore ==
    [][\A p \in Procs :
        ReconcileStep(p) =>
            LET user_id == procs[p].user_id
                legacy == users[user_id].plate
                creatable == /\ find_primary_by_user_id(user_id) = {}
                             /\ IsSome(legacy)
                             /\ IsSome(validate_plate(Unwrap(legacy)))
            IN  /\ (procs[p].pc = "create_insert" /\ plates' # plates) =>
                      /\ procs[p].primary_at_call = {}
                      /\ IsSome(legacy)
                      /\ IsSome(validate_plate(Unwrap(legacy)))
                /\ (procs'[p].pc = "done" /\ procs'[p].why \in {"no_plate", "in_sync"})
                      => ~creatable]_vars

\* The plate row a request names belongs to a user other than the caller
ForeignRow(user_id, plate_id) ==
    \E r \in plates : r.id = plate_id /\ r.user_id # user_id

\* C21: a step of delete_user_plate, set_primary_plate or update_user_plate whose
\* plate id names a row of another user changes no plate row, and the call ends with
\* NotFound unless its statement itself failed.
ForeignPlateUntouched ==
    [][\A p \in Procs :
        (/\ procs'[p] # procs[p]
         /\ procs'[p].op \in {"delete_user_plate", "set_primary_plate", "update_user_plate"}
         /\ ForeignRow(procs'[p].user_id, procs'[p].plate_id))
        => /\ plates' = plates
           /\ procs'[p].pc = "done" =>
                 \/ procs'[p].result = "NotFound"
                 \/ procs'[p].result = "Database"
                      /\ procs'[p].why \in {"delete", "set_check", "update"}
                 \/ procs'[p].result = "Validation" /\ procs'[p].op = "update_user_plate"]_vars

ForeignPlateUntouchedWitness ==
    \E p \in Procs :
        /\ procs[p].op = "update_user_plate" /\ procs[p].pc = "done"
        /\ procs[p].result = "NotFound"
        /\ ForeignRow(procs[p].user_id, procs[p].plate_id)

\* The plate grammar: a letter, three ASCII digits, two letters, two or three ASCII
\* digits; a letter is Cyrillic upper case or ASCII
PlateGrammar(s) ==
    /\ Len(s) \in {8, 9}
    /\ \A i \in {1, 5, 6} :
          s[i] \in CyrillicUpper \cup AsciiUpperLetters \cup AsciiLowerLetters
    /\ \A i \in (2..4) \cup (7..Len(s)) : s[i] \in AsciiDigits

\* C22: a text that validate_plate accepts is returned without spaces and hyphens and
\* in upper case, the returned text is a fixed point of normalize_plate and a plate of
\* the grammar; a text whose normalized form is not a plate of the grammar is rejected.
ValidatedPlateIsNormalForm ==
    \A p \in Procs :
        (procs[p].op = "validate_plate" /\ procs[p].pc = "done") =>
            IF procs[p].result = "Ok"
            THEN LET out == Unwrap(procs[p].output)
                 IN  /\ \A i \in 1..Len(out) :
                           out[i] \notin {" ", "-", "sharp_s"} \cup AsciiLowerLetters
                                         \cup CyrillicLower
                     /\ normalize_plate(out) = out
                     /\ normalize_plate(normalize_plate(procs[p].input)) = out
                     /\ PlateGrammar(out)
            ELSE /\ procs[p].output = NoneV
                 /\ ~PlateGrammar(procs[p].normalized)

\* An accepted text that normalization changed in length and in case
ValidatedPlateWitness ==
    \E p \in Procs :
        /\ procs[p].op = "validate_plate" /\ procs[p].pc = "done" /\ procs[p].result = "Ok"
        /\ Len(procs[p].input) # Len(Unwrap(procs[p].output))
        /\ \E i \in 1..Len(procs[p].input) : procs[p].input[i] \in AsciiLowerLetters

PhoneCharsOnly(x) == \A i \in 1..Len(x) : x[i] \in AsciiDigits \cup {"+"}

\* C23: on a text of digits and '+', normalize_phone returns the text itself when it
\* starts with "+7", "+7" and the rest when it is longer than one character and starts
\* with "8", "+" and the text when it is longer than one character and starts with
\* "7", the text itself for "8", and "+7" and the text for any other text that starts
\* with a digit; "8" then fails validation.
PhonePrefixRules ==
    \A p \in Procs :
        (procs[p].op = "validate_phone" /\ procs[p].pc = "done"
          /\ PhoneCharsOnly(procs[p].input)) =>
            LET x == procs[p].input
            IN  /\ procs[p].normalized =
                      IF StartsWith(x, <<"+", "7">>) THEN x
                      ELSE IF StartsWith(x, <<"8">>) /\ Len(x) > 1 THEN <<"+", "7">> \o Tail(x)
                      ELSE IF StartsWith(x, <<"7">>) /\ Len(x) > 1 THEN <<"+">> \o x
                      ELSE IF x = <<"8">> THEN x
                      ELSE IF x # << >> /\ x[1] \in AsciiDigits THEN <<"+", "7">> \o x
                      ELSE x
                /\ x = <<"8">> => procs[p].result = "Validation"

\* The steps a create_block call may be at after the step named
CreateBlockFollows(pc) ==
    CASE pc = "begin"    -> {"fallback", "exists", "done"}
      [] pc = "fallback" -> {"exists", "done"}
      [] pc = "exists"   -> {"insert", "done"}
      [] pc = "insert"   -> {"dep_find", "blocker", "done"}
      [] OTHER           -> {}

\* The step where a create_block call that ended without a block gave up
CreateBlockGaveUpAt(pc) ==
    CASE pc = "begin"    -> {"plate_format", "self_block"}
      [] pc = "fallback" -> {"find_by_user_id", "no_vehicle", "self_block"}
      [] pc = "exists"   -> {"exists", "duplicate"}
      [] pc = "insert"   -> {"insert", "unique_user_block"}
      [] OTHER           -> {}

\* C24: a create_block call goes through validate, resolve and self-block check,
\* duplicate check, persist in this order; no step of a call that has not persisted
\* its block changes a plate row, stores a notification or sends an alert; the block
\* store changes only in the persist step that succeeds, and a call that ends before
\* leaves it alone and returns an error; a notification or alert about a block is
\* only produced by a call that has persisted that block before.
CreateBlockStepOrder ==
    [][/\ \A p \in Procs :
            (/\ procs'[p] # procs[p]
             /\ procs'[p].op = "create_block"
             /\ (procs[p] = Idle \/ procs[p].block = NoneV))
            => LET at == IF procs[p] = Idle THEN "begin" ELSE procs[p].pc
               IN  /\ plates' = plates
                   /\ notifications' = notifications
                   /\ dispatched' = dispatched
                   /\ procs'[p].pc \in CreateBlockFollows(at)
                   /\ procs'[p].normalized_plate = NoneV
                        => procs'[p].pc = "done" /\ procs'[p].why = "plate_format"
                   /\ IF IsSome(procs'[p].block)
                      THEN /\ at = "insert"
                           /\ Unwrap(procs'[p].block) \notin blocks
                           /\ blocks' = blocks \cup {Unwrap(procs'[p].block)}
                      ELSE /\ blocks' = blocks
                           /\ procs'[p].pc = "done"
                                => /\ procs'[p].result # "Ok"
                                   /\ procs'[p].why \in CreateBlockGaveUpAt(at)
       /\ \A n \in notifications' \ notifications :
            n.type = "block" =>
                \E p \in Procs : /\ procs[p].op = "create_block" /\ IsSome(procs[p].block)
                                 /\ Unwrap(procs[p].block).id = n.block_id
                                 /\ n.block_id <= blockSeq
       /\ \A d \in dispatched' \ dispatched :
            d.event = "block" =>
                \E p \in Procs : /\ procs[p].op = "create_block" /\ IsSome(procs[p].block)
                                 /\ Unwrap(procs[p].block).id = d.block_id
                                 /\ d.block_id <= blockSeq
      ]_vars

\* A call stopped at the duplicate check, after an earlier call persisted its block and
\* sent an alert about it
CreateBlockStepOrderWitness ==
    /\ \E p \in Procs :
        /\ CreateBlockReturned(p) /\ procs[p].why = "duplicate" /\ procs[p].block = NoneV
    /\ \E d \in dispatched, b \in blocks : d.event = "block" /\ d.block_id = b.id

\* The alerts and notification rows an event on a block produced for a user
EventReached(event, type, block_id, u) ==
    \/ \E d \in dispatched : d.event = event /\ d.block_id = block_id /\ d.to = u
    \/ \E n \in notifications : n.type = type /\ n.block_id = block_id /\ n.user_id = u

\* C25: the owners of a blocked plate are looked up when the event happens: once
\* delete_block has returned success every user who owns the plate then (other than
\* the blocker) has been notified and no other user has; a warn_owner call that
\* returned success has called a present owner whenever one can be called, and
\* nobody else.  (The one block of these behaviours is on plate A.)
OwnersResolvedAtEventTime ==
    \A p \in Procs :
        /\ (DeleteBlockReturned(p) /\ procs[p].result = "Ok") =>
                \A u \in DOMAIN users :
                    EventReached("unblock", "unblock", procs[p].block_id, u)
                    <=> u \in OwnersToNotify(Unwrap(procs[p].block).blocked_plate,
                                             procs[p].blocker_id)
        /\ (procs[p].op = "warn_owner" /\ procs[p].pc = "done" /\ procs[p].result = "Ok") =>
                LET owners == OwnersToNotify(PlateA, procs[p].user_id)
                    callable == {u \in owners :
                                    /\ IsSome(users[u].phone_encrypted)
                                    /\ IsSome(decrypt(Unwrap(users[u].phone_encrypted)))}
                    called == {u \in DOMAIN users :
                                  EventReached("warn", "warn", procs[p].block_id, u)}
                IN  /\ called \subseteq owners
                    /\ callable # {} => called # {}

\* The departure time of a create_block request, when it is a well-formed HH:MM
RequestedDeparture(rec) ==
    IF IsSome(rec.request.departure_time)
    THEN parse_time(Unwrap(rec.request.departure_time)) ELSE NoneV

\* C26: once a create_block call that persisted its block is through with the
\* departure time (it goes on to the fan-out), a well-formed HH:MM of the request is
\* the departure_time of the blocker's primary plate when there is one; the call
\* changes no other plate row and no other field; with a malformed or absent time the
\* block is persisted all the same and the call changes no plate row.
DepartureTimeOnPrimaryPlate ==
    [][\A p \in Procs :
        (procs[p].op = "create_block" /\ procs[p].pc # "done" /\ procs'[p] # procs[p])
        => LET rec == procs[p]
               dt == RequestedDeparture(rec)
           IN  /\ (IsSome(rec.block) /\ procs'[p].pc \in {"blocker", "owners"} /\ IsSome(dt)
                   /\ rec.pc \in {"dep_find", "dep_update"})
                    => \A r \in plates' :
                            (r.user_id = rec.blocker_id /\ r.is_primary) => r.departure_time = dt
               /\ \A r \in plates' \ plates :
                    /\ IsSome(rec.block) /\ IsSome(dt)
                    /\ \E old \in plates \ plates' :
                        /\ old.user_id = rec.blocker_id /\ old.is_primary
                        /\ r = [old EXCEPT !.departure_time = dt]
               /\ Cardinality(plates' \ plates) <= 1
               /\ Cardinality(plates \ plates') = Cardinality(plates' \ plates)
               /\ (rec.pc = "insert" /\ IsSome(procs'[p].block) /\ ~IsSome(dt))
                    => procs'[p].pc = "blocker" /\ Unwrap(procs'[p].block) \in blocks'
               /\ ~IsSome(dt) => plates' = plates]_vars

\* C27: with one create_block call at a time, a call that has passed the duplicate
\* pre-check does not fail at the insert on the store's uniqueness constraint.
PreCheckAgreesWithConstraint ==
    [][\A p \in Procs :
        (procs[p].op = "create_block" /\ procs[p].pc = "insert" /\ procs'[p] # procs[p])
        => ~(procs'[p].pc = "done" /\ procs'[p].why = "unique_user_block")]_vars

\* The ids of the rows marked primary for a user in a set of plate rows
PrimaryIds(rows, user_id) == {r.id : r \in {x \in rows : x.user_id = user_id /\ x.is_primary}}

\* C28: the INSERT of a create_user_plate request with is_primary = false, for any
\* plate (new, already owned, or the primary one), leaves the user with the same
\* primary plate row as before.
CreateNonPrimaryKeepsPrimary ==
    [][\A p \in Procs :
        (/\ procs[p].op = "create_user_plate" /\ procs[p].pc = "create_insert"
         /\ ~procs[p].is_primary
         /\ procs'[p] # procs[p])
        => PrimaryIds(plates', procs[p].user_id) = PrimaryIds(plates, procs[p].user_id)]_vars

\* The plate of the row that had this id (ids are not reused and a row keeps its plate)
DeletedPlate(id) == (CHOOSE r \in SharedPlates : r.id = id).plate

\* C29: while the response of a successful delete_user_plate is pending, no step of a
\* get_profile or verify_auth call for the same user, which came after the delete,
\* gives the user a row for the plate of the deleted row again.
DeletedPlateStaysDeleted ==
    [][\A p, q \in Procs :
        (/\ procs[q].op = "delete_user_plate" /\ procs[q].pc = "done"
         /\ procs[q].result = "Ok"
         /\ procs[p].op \in {"get_profile", "verify_auth"}
         /\ procs[p].user_id = procs[q].user_id
         /\ procs'[p] # procs[p])
        => LET Has(rows) == \E r \in rows : /\ r.user_id = procs[q].user_id
                                            /\ r.plate = DeletedPlate(procs[q].plate_id)
           IN  Has(plates') => Has(plates)]_vars

\* C30: no two verify_auth calls for one phone and one code have both completed with
\* success, whether they ran one after the other or together (no code is issued in
\* these behaviours besides the stored ones); and a step that ends a verify_auth call
\* with an error leaves the stored codes as they were.
OtpSingleUse ==
    [][/\ \A p, q \in Procs :
            (/\ p # q
             /\ procs'[p].op = "verify_auth" /\ procs'[q].op = "verify_auth"
             /\ procs'[p].pc = "done" /\ procs'[q].pc = "done"
             /\ procs'[p].phone = procs'[q].phone /\ procs'[p].code = procs'[q].code)
            => ~(procs'[p].result = "Ok" /\ procs'[q].result = "Ok")
       /\ \A p \in Procs :
            (/\ procs'[p] # procs[p]
             /\ procs'[p].op = "verify_auth" /\ procs'[p].pc = "done"
             /\ procs'[p].result # "Ok")
            => codes' = codes]_vars

====
